---- MODULE Spec2Model ----
(***************************************************************************)
(* Model of the scribble-reader illustrator: the chapter paginator         *)
(* (render_resource), the page cache (PageContentCache) and the per-book   *)
(* worker loop (spawn_illustrator) of src/illustrator/src/lib.rs.          *)
(*                                                                         *)
(* Build modelled: release (debug_assert! compiled out).                   *)
(* Lengths are integers: one unit is one pixel at font_size_px = 1.        *)
(***************************************************************************)
EXTENDS Integers, Sequences, FiniteSets, TLC

VARIABLES
    book,         \* BookMeta source: the chapters' parsed node trees, in spine order
    params,       \* Params {page_width, page_height, scale} held by the worker
    cache,        \* PageContentCache {index, entries}
    rendered,     \* history: per cache slot, the Params its entry was rendered with
    current_loc,  \* the worker's current_loc
    queue,        \* requests in the channel, oldest first
    pc,           \* the worker's position in its loop
    shared,       \* the handle's shared location and the persisted reading state
    bell,         \* history: the content_ready notifications: how many, and the last one
    log,          \* history: what the claims need to remember (per specification)
    senders,      \* the live Sender clones of the request channel
    tree,         \* the NodeTreeBuilder's tree of nodes, its body marker included
    printer,      \* the SculpturePrinter: atlas allocator, glyph map, refresh flag
    shaper,       \* the SculptureShaper: faces with their shape plans, fallbacks
    workers,      \* the worker threads of two books opened one after the other
    origin,       \* history: per cache slot, the worker that inserted its entry
    tracker       \* the GestureTracker: minimum distance and per-finger states

vars == <<book, params, cache, rendered, current_loc, queue, pc, shared, bell, log,
          senders, tree, printer, shaper, workers, origin, tracker>>

----------------------------------------------------------------------------
(* Bounds *)

MaxNodes == 4          \* nodes below <body> in a chapter paginated on its own
MaxWalkNodes == 3       \* nodes below <body> in a body walked by the first pass
MaxBookNodes == 4      \* nodes below <body>, summed over the chapters of a book
MaxSends == 3          \* requests the host sends in one run
MaxQueue == 2          \* requests waiting in the channel at once
MaxInserts == 7        \* insertions in the cache ring specification
RingChapters == 6      \* chapters of the book in the cache ring specification
MaxTreeNodes == 5      \* nodes in the tree builder's tree, root and error included
MaxTokens == 3         \* text insertions that reach the tree builder's tree
MaxPrints == 3         \* calls of print_lines in one run of the printer
MaxGlyphs == 2         \* glyphs in the lines of one print_lines call
MaxUpdates == 2        \* calls of update_glyph_atlas in one run of the printer
MaxChars == 2          \* characters in the strings of one shape call
MaxStrings == 2        \* strings in one shape call

(* Program constants *)

CACHE_CHAPTERS == 5
BodyId == 4            \* root 0, error 1, html 2, head 3, body 4

(* The configuration read by RenderSettings::new (a settings file with     *)
(* whole numbers).                                                         *)
Config == [font_size_px |-> 1, line_height |-> 1,
           padding |-> [top_em |-> 1, left_em |-> 1, right_em |-> 1,
                        bottom_em |-> 1, paragraph_em |-> 1]]

(* Inputs *)
TextLen == 12                         \* glyphs in one Text node
Widths == {12, 16}
Heights == {6, 12}
Scales == {1, 2}
ParamsSet == [page_width : Widths, page_height : Heights, scale : Scales]

----------------------------------------------------------------------------
(* Sequence helpers *)

Last(s) == s[Len(s)]

Front(s) == SubSeq(s, 1, Len(s) - 1)

RECURSIVE Reverse(_)
Reverse(s) == IF s = <<>> THEN <<>> ELSE Append(Reverse(Tail(s)), Head(s))

RECURSIVE SelectIdx(_, _, _)
\* the indices i in lo..hi with P[i], ascending, as a sequence
SelectIdx(P, lo, hi) ==
    IF lo > hi THEN <<>>
    ELSE IF P[lo] THEN <<lo>> \o SelectIdx(P, lo + 1, hi)
    ELSE SelectIdx(P, lo + 1, hi)

Max(a, b) == IF a >= b THEN a ELSE b

CeilDiv(a, b) == (a + b - 1) \div b

----------------------------------------------------------------------------
(* The parsed chapter: nodes below <body>, in creation order.  Node i has  *)
(* NodeId BodyId + i; parent 0 is <body>.                                  *)

Tags == {"div", "p", "span", "text"}

RECURSIVE IsAncestorOrSelf(_, _, _)
IsAncestorOrSelf(ch, a, i) ==
    IF i = a THEN TRUE
    ELSE IF i = 0 THEN FALSE
    ELSE IsAncestorOrSelf(ch, a, ch[i].parent)

WellFormed(ch) ==
    \A i \in 1..Len(ch) :
        /\ ch[i].parent < i
        /\ ch[i].parent # 0 => ch[ch[i].parent].tag # "text"
        \* the parser creates nodes in document order
        /\ i > 1 => IsAncestorOrSelf(ch, ch[i].parent, i - 1)
        \* adjacent sibling texts are coalesced at insertion
        /\ (i > 1 /\ ch[i].tag = "text" /\ ch[i - 1].tag = "text")
              => ch[i].parent # ch[i - 1].parent
        \* the parser closes an open <p> before it opens a block
        /\ (ch[i].parent # 0 /\ ch[ch[i].parent].tag = "p")
              => ch[i].tag \in {"text", "span"}

\* every text is followed by a block edge: the last child of <body> is a block
Flushed(ch) ==
    /\ \A i \in 1..Len(ch) : ch[i].parent = 0 => ch[i].tag # "span"
    /\ \A i \in 1..Len(ch) :
         (ch[i].parent = 0 /\ \A j \in (i + 1)..Len(ch) : ch[j].parent # 0)
            => ch[i].tag \in {"div", "p"}

RECURSIVE TreesOf(_, _)
TreesOf(n, T) ==
    IF n = 0 THEN {<<>>}
    ELSE { x \in UNION { { Append(c, r) : r \in [tag : T, parent : 0..(n - 1)] }
                         : c \in TreesOf(n - 1, T) } : WellFormed(x) }

ChaptersOf(n, T) == { ch \in TreesOf(n, T) : Flushed(ch) }

\* chapters given to the paginator on their own
ChapterSet == UNION { ChaptersOf(n, Tags) : n \in 0..MaxNodes }

\* chapters of the books the cache and the worker serve
BookTags == {"p", "text"}

BookChaptersOf(n) == ChaptersOf(n, BookTags)

node_count(ch) == BodyId + 1 + Len(ch)

children(ch, id) ==
    SelectIdx([i \in 1..Len(ch) |-> ch[i].parent = id], 1, Len(ch))

----------------------------------------------------------------------------
(* NodeTreeIter: the edges below a node, in document order *)

child_edges_rev(ch, id) ==
    LET cs == Reverse(children(ch, id))
    IN [k \in 1..Len(cs) |->
          IF ch[cs[k]].tag = "text"
          THEN [e |-> "Text", id |-> cs[k]]
          ELSE [e |-> "OpenElement", id |-> cs[k]]]

RECURSIVE NodeTreeIterNext(_, _, _)
\* stack: the top is the last element
NodeTreeIterNext(ch, stack, out) ==
    IF stack = <<>> THEN out
    ELSE LET node == Last(stack)
             rest == Front(stack)
         IN IF node.e = "OpenElement"
            THEN NodeTreeIterNext(ch,
                    Append(rest, [e |-> "CloseElement", id |-> node.id])
                        \o child_edges_rev(ch, node.id),
                    Append(out, node))
            ELSE NodeTreeIterNext(ch, rest, Append(out, node))

body_iter(ch) == NodeTreeIterNext(ch, child_edges_rev(ch, 0), <<>>)

----------------------------------------------------------------------------
(* RenderSettings *)

em(settings) == (Config.font_size_px * settings.scale) * settings.scale

page_height_padded(settings) ==
    settings.page_height - Config.padding.top_em * em(settings)
                         - Config.padding.bottom_em * em(settings)

page_width_padded(settings) ==
    settings.page_width - Config.padding.left_em * em(settings)
                        - Config.padding.right_em * em(settings)

paragraph_padding(settings) == Config.padding.paragraph_em * em(settings)

\* Wrap::WordOrGlyph at the width constraint; height is lines * line_height
measure_text(settings, len, width) ==
    LET size == Config.font_size_px * settings.scale
        per_line == Max(width \div size, 1)
        total_lines == CeilDiv(len, per_line)
    IN total_lines * (size * Config.line_height)

text_style(tag) ==
    CASE tag \in {"b", "strong"} -> "Bold"
      [] tag \in {"i", "em"} -> "Italic"
      [] tag = "h1" -> "H1"
      [] OTHER -> "None"

is_inline(tag) == tag \in {"strong", "b", "em", "i", "span"}

----------------------------------------------------------------------------
(* render_resource, first pass: the layout tree built from the body edges. *)
(* Layout node k has parent 0 when it is a child of the layout body.       *)

FlushTexts(st, element) ==
    IF st.texts = <<>> THEN st
    ELSE [st EXCEPT
            !.nodes = Append(@, [element |-> element, content |-> "Text",
                                 parent |-> st.current, tag |-> "text",
                                 len |-> Len(st.texts) * TextLen,
                                 texts |-> st.texts]),
            !.texts = <<>>]

PopStyle(st, id) ==
    IF st.text_styles # <<>> /\ Last(st.text_styles)[1] = id
    THEN [st EXCEPT !.text_styles = Front(@)]
    ELSE st

PushStyle(st, id, tag) ==
    IF text_style(tag) # "None"
    THEN [st EXCEPT !.text_styles = Append(@, <<id, text_style(tag)>>)]
    ELSE st

BuildEdge(ch, st, edge) ==
    LET tag == ch[edge.id].tag
        element == BodyId + edge.id
    IN CASE edge.e = "OpenElement" /\ is_inline(tag) ->
              PushStyle(st, edge.id, tag)
         [] edge.e = "OpenElement" /\ ~is_inline(tag) ->
              LET s1 == FlushTexts(PushStyle(st, edge.id, tag), element)
                  s2 == [s1 EXCEPT !.nodes =
                            Append(@, [element |-> element, content |-> "Block",
                                       parent |-> s1.current, tag |-> tag,
                                       len |-> 0, texts |-> <<>>])]
              IN [s2 EXCEPT !.current = Len(s2.nodes)]
         [] edge.e = "CloseElement" /\ is_inline(tag) ->
              PopStyle(st, edge.id)
         [] edge.e = "CloseElement" /\ ~is_inline(tag) ->
              LET s1 == FlushTexts(PopStyle(st, edge.id), element)
              IN [s1 EXCEPT !.current = s1.nodes[s1.current].parent]
         [] edge.e = "Text" ->
              [st EXCEPT !.texts = Append(@, edge.id)]

RECURSIVE BuildEdges(_, _, _)
BuildEdges(ch, st, edges) ==
    IF edges = <<>> THEN st
    ELSE BuildEdges(ch, BuildEdge(ch, st, Head(edges)), Tail(edges))

\* the walk over the body's edges, up to the end of the while loop
WalkBody(ch) ==
    BuildEdges(ch,
               [current |-> 0, text_styles |-> <<>>, texts |-> <<>>,
                nodes |-> <<>>],
               body_iter(ch))

BuildLayoutTree(ch) == WalkBody(ch).nodes

----------------------------------------------------------------------------
(* The computed layout: block flow, one column as wide as the padded page  *)

layout_children(tn, id) ==
    SelectIdx([i \in 1..Len(tn) |-> tn[i].parent = id], 1, Len(tn))

element_style(settings, tag) ==
    IF tag = "p" THEN paragraph_padding(settings) ELSE 0

RECURSIVE layout_height(_, _, _)
RECURSIVE SumHeights(_, _, _)

SumHeights(settings, tn, ids) ==
    IF ids = <<>> THEN 0
    ELSE layout_height(settings, tn, Head(ids))
            + SumHeights(settings, tn, Tail(ids))

layout_height(settings, tn, id) ==
    IF tn[id].content = "Text"
    THEN measure_text(settings, tn[id].len, page_width_padded(settings))
    ELSE SumHeights(settings, tn, layout_children(tn, id))
            + element_style(settings, tn[id].tag)

\* l.location.y: relative to the parent's top
layout_y(settings, tn, id) ==
    LET sibs == layout_children(tn, tn[id].parent)
        before == SelectIdx([i \in 1..Len(tn) |->
                               tn[i].parent = tn[id].parent /\ i < id],
                            1, Len(tn))
    IN SumHeights(settings, tn, before)

----------------------------------------------------------------------------
(* TaffyTreeIter over the layout tree *)

taffy_children_rev(tn, id) ==
    LET cs == Reverse(layout_children(tn, id))
    IN [k \in 1..Len(cs) |-> [e |-> "Open", id |-> cs[k]]]

RECURSIVE TaffyTreeIterNext(_, _, _)
TaffyTreeIterNext(tn, stack, out) ==
    IF stack = <<>> THEN out
    ELSE LET node == Last(stack)
             rest == Front(stack)
         IN IF node.e = "Open"
            THEN TaffyTreeIterNext(tn,
                    Append(rest, [e |-> "Close", id |-> node.id])
                        \o taffy_children_rev(tn, node.id),
                    Append(out, node))
            ELSE TaffyTreeIterNext(tn, rest, Append(out, node))

TaffyTreeIter(tn) == TaffyTreeIterNext(tn, taffy_children_rev(tn, 0), <<>>)

----------------------------------------------------------------------------
(* render_resource, second pass: pagination *)

NewPage(position, index, start) ==
    [position |-> position, index |-> index,
     elements |-> [start |-> start, end |-> start], items |-> <<>>]

create_display_item(tn, id) == tn[id].content = "Text"

\* PaginateOpen that breaks the page when the item alone is taller than it
PaginateOpen_item_height(settings, tn, st, id) ==
    LET y == st.offset + layout_y(settings, tn, id)
        h == layout_height(settings, tn, id)
        s1 == [st EXCEPT !.offset = y,
                         !.page.elements.end = tn[id].element]
    IN IF ~create_display_item(tn, id) THEN s1
       ELSE LET s2 == IF h > page_height_padded(settings)
                      THEN [s1 EXCEPT
                              !.pages = Append(@, s1.page),
                              !.page = NewPage({}, s1.page.index + 1,
                                               s1.page.elements.end),
                              !.page_end = y]
                      ELSE s1
            IN [s2 EXCEPT !.page.items =
                   Append(@, [y |-> Config.padding.top_em * em(settings) + y - s2.page_end,
                              height |-> h, node |-> id])]

PaginateOpen(settings, tn, st, id) ==
    LET y == st.offset + layout_y(settings, tn, id)
        h == layout_height(settings, tn, id)
        s1 == [st EXCEPT !.offset = y,
                         !.page.elements.end = tn[id].element]
    IN IF ~create_display_item(tn, id) THEN s1
       ELSE LET content_end == y + h
                s2 == IF content_end - s1.page_end > page_height_padded(settings)
                      THEN [s1 EXCEPT
                              !.pages = Append(@, s1.page),
                              !.page = NewPage({}, s1.page.index + 1,
                                               s1.page.elements.end),
                              !.page_end = y]
                      ELSE s1
            IN [s2 EXCEPT !.page.items =
                   Append(@, [y |-> Config.padding.top_em * em(settings) + y - s2.page_end,
                              height |-> h, node |-> id])]

PaginateClose(settings, tn, st, id) ==
    [st EXCEPT !.offset = @ - layout_y(settings, tn, id)]

RECURSIVE PaginateEdges(_, _, _, _)
PaginateEdges(settings, tn, st, edges) ==
    IF edges = <<>> THEN st
    ELSE LET edge == Head(edges)
         IN PaginateEdges(settings, tn,
               IF edge.e = "Open"
               THEN PaginateOpen(settings, tn, st, edge.id)
               ELSE PaginateClose(settings, tn, st, edge.id),
               Tail(edges))

\* the end of the pagination without setting the Last flag
FinishPages_unflagged(st) ==
    IF st.page.items # <<>> \/ st.pages = <<>>
    THEN Append(st.pages, st.page)
    ELSE st.pages

FinishPages(st) ==
    IF st.page.items # <<>> \/ st.pages = <<>>
    THEN Append(st.pages, [st.page EXCEPT !.position = @ \cup {"Last"}])
    ELSE [st.pages EXCEPT ![Len(st.pages)].position = @ \cup {"Last"}]

render_resource(settings, ch) ==
    LET tn == BuildLayoutTree(ch)
    IN FinishPages(
          PaginateEdges(settings, tn,
             [page_end |-> 0, offset |-> 0, pages |-> <<>>,
              page |-> NewPage({"First"}, 0, 0)],
             TaffyTreeIter(tn)))

----------------------------------------------------------------------------
(* BookMeta *)

\* BookMeta::create: every spine item gets the element range 0..node_count
BookMeta(b) ==
    [i \in 1..Len(b) |->
        [index |-> i - 1,
         elements |-> [start |-> 0, end |-> node_count(b[i])]]]

\* Vec::get
Get(s, i) == IF i >= 0 /\ i < Len(s) THEN <<s[i + 1]>> ELSE <<>>

spine_resource(book_meta, loc) == Get(book_meta, loc.spine)

Location(spine, element) == [spine |-> spine, element |-> element]

----------------------------------------------------------------------------
(* PageContentCache.  An Option is a sequence of length 0 (None) or 1.     *)

None == <<>>

EmptyCache == [index |-> 0, entries |-> [i \in 1..CACHE_CHAPTERS |-> None]]

\* Range::contains
contains(r, x) == r.start <= x /\ x < r.end

\* Iterator::find / rfind over 1..n for a predicate given as a function
FindIdx(P, n) ==
    IF \E i \in 1..n : P[i]
    THEN <<CHOOSE i \in 1..n : P[i] /\ \A j \in 1..(i - 1) : ~P[j]>>
    ELSE <<>>

RFindIdx(P, n) ==
    IF \E i \in 1..n : P[i]
    THEN <<CHOOSE i \in 1..n : P[i] /\ \A j \in (i + 1)..n : ~P[j]>>
    ELSE <<>>

\* the slot of the first entry for a spine index
find_entry(c, spine) ==
    FindIdx([i \in 1..CACHE_CHAPTERS |->
                c.entries[i] # None /\ c.entries[i][1].spine = spine],
            CACHE_CHAPTERS)

\* PageContentCache::entry: Some([entry, page index]) or None
entry(c, loc) ==
    LET slot == find_entry(c, loc.spine)
    IN IF slot = None THEN None
       ELSE LET e == c.entries[slot[1]][1]
                n == Len(e.pages)
            IN IF loc.element = e.elements.start
               THEN (IF n = 0 THEN None ELSE <<[entry |-> e, page |-> 1]>>)
               ELSE IF loc.element >= e.elements.end
               THEN (IF n = 0 THEN None ELSE <<[entry |-> e, page |-> n]>>)
               ELSE LET f == FindIdx([i \in 1..n |->
                                contains(e.pages[i].elements, loc.element)], n)
                    IN IF f = None THEN None
                       ELSE <<[entry |-> e, page |-> f[1]]>>

\* PageContentCache::page
page(c, loc) ==
    IF entry(c, loc) = None THEN None
    ELSE LET r == entry(c, loc)[1] IN <<r.entry.pages[r.page]>>

\* next_page looking up the spine item of the same chapter (the + 1 left out)
next_page_same_chapter(c, book_meta, loc) ==
    IF entry(c, loc) = None THEN loc
    ELSE LET e == entry(c, loc)[1].entry
             pg == e.pages[entry(c, loc)[1].page]
             n == Len(e.pages)
         IN IF "Last" \in pg.position
            THEN LET item == Get(book_meta, e.spine)
                 IN IF item = None THEN loc
                    ELSE Location(item[1].index, item[1].elements.start)
            ELSE LET f == FindIdx([i \in 1..n |->
                              e.pages[i].elements.start > pg.elements.start], n)
                     p == IF f = None THEN e.pages[n] ELSE e.pages[f[1]]
                 IN Location(e.spine, p.elements.start)

next_page(c, book_meta, loc) ==
    IF entry(c, loc) = None THEN loc
    ELSE LET e == entry(c, loc)[1].entry
             pg == e.pages[entry(c, loc)[1].page]
             n == Len(e.pages)
         IN IF "Last" \in pg.position
            THEN LET item == Get(book_meta, e.spine + 1)
                 IN IF item = None THEN loc   \* end of book
                    ELSE Location(item[1].index, item[1].elements.start)
            ELSE LET f == FindIdx([i \in 1..n |->
                              e.pages[i].elements.start > pg.elements.start], n)
                     p == IF f = None THEN e.pages[n] ELSE e.pages[f[1]]
                 IN Location(e.spine, p.elements.start)

\* u32::saturating_sub(1)
saturating_sub1(x) == IF x = 0 THEN 0 ELSE x - 1

\* previous_page panics in expect() when no page starts before the current one
previous_page_panics(c, loc) ==
    /\ entry(c, loc) # None
    /\ LET e == entry(c, loc)[1].entry
           pg == e.pages[entry(c, loc)[1].page]
       IN /\ "First" \notin pg.position
          /\ \A i \in 1..Len(e.pages) :
                ~(e.pages[i].elements.start < pg.elements.start)

\* previous_page that steps one element past the end of the chapter before
previous_page_past_end(c, book_meta, loc) ==
    IF entry(c, loc) = None THEN loc
    ELSE LET e == entry(c, loc)[1].entry
             pg == e.pages[entry(c, loc)[1].page]
             n == Len(e.pages)
         IN IF "First" \in pg.position
            THEN LET item == Get(book_meta, saturating_sub1(e.spine))
                 IN IF item = None THEN loc
                    ELSE Location(item[1].index, item[1].elements.end + 1)
            ELSE LET f == RFindIdx([i \in 1..n |->
                              e.pages[i].elements.start < pg.elements.start], n)
                 IN IF f = None THEN loc
                    ELSE Location(e.spine, e.pages[f[1]].elements.start)

previous_page(c, book_meta, loc) ==
    IF entry(c, loc) = None THEN loc
    ELSE LET e == entry(c, loc)[1].entry
             pg == e.pages[entry(c, loc)[1].page]
             n == Len(e.pages)
         IN IF "First" \in pg.position
            THEN LET item == Get(book_meta, saturating_sub1(e.spine))
                 IN IF item = None THEN loc   \* start of book
                    ELSE Location(item[1].index, item[1].elements.end)
            ELSE LET f == RFindIdx([i \in 1..n |->
                              e.pages[i].elements.start < pg.elements.start], n)
                 IN IF f = None THEN loc
                    ELSE Location(e.spine, e.pages[f[1]].elements.start)

is_cached(c, spine_item) == find_entry(c, spine_item.index) # None

\* insert that does not advance the ring index
insert_no_advance(c, spine_item, pages) ==
    [index |-> c.index,
     entries |-> [c.entries EXCEPT ![(c.index % CACHE_CHAPTERS) + 1] =
                    <<[spine |-> spine_item.index,
                       elements |-> spine_item.elements,
                       pages |-> pages]>>]]

insert(c, spine_item, pages) ==
    [index |-> c.index + 1,
     entries |-> [c.entries EXCEPT ![(c.index % CACHE_CHAPTERS) + 1] =
                    <<[spine |-> spine_item.index,
                       elements |-> spine_item.elements,
                       pages |-> pages]>>]]

\* clear that leaves the entries in place
clear_keep(c) == c

clear(c) == [c EXCEPT !.entries = [i \in 1..CACHE_CHAPTERS |-> None]]

\* assure_cached: render the chapter of spine_item unless the cache has it
assure_cached(settings, c, b, spine_item) ==
    IF is_cached(c, spine_item) THEN c
    ELSE insert(c, spine_item, render_resource(settings, b[spine_item.index + 1]))

----------------------------------------------------------------------------
(* The paginator on its own: one chapter, rendered once                    *)

\* Illustrator::create
InitParams == [page_width |-> 12, page_height |-> 6, scale |-> 1]

NoRendered == [i \in 1..CACHE_CHAPTERS |-> None]

NoLog == [sends |-> 0, ideal |-> Location(0, 0), renders |-> 0, burst |-> 0,
          recvs |-> 0, inserted |-> <<>>, base |-> 0, read |-> "none"]

\* NodeTreeBuilder::new: a tree of two leaves, the document root and the error
\* node, and no body marker
NewBuilder ==
    [nodes |-> <<[kind |-> "None", t |-> <<>>], [kind |-> "None", t |-> <<>>]>>,
     children |-> << <<>>, <<>> >>,
     parent |-> <<0, 0>>,
     root |-> 1, error |-> 2, body |-> 0, parse_errors |-> <<>>]

\* SculpturePrinter::INITIAL_SIZE
INITIAL_SIZE == 1024

\* the maximum texture size create_sculpter hands to the printer
LibMaxTexture == [width |-> 8192, height |-> 8192]

\* euclid Size2D::min and addition, by component
size_min(a, b) ==
    [width |-> IF a.width < b.width THEN a.width ELSE b.width,
     height |-> IF a.height < b.height THEN a.height ELSE b.height]

size_add(a, b) == [width |-> a.width + b.width, height |-> a.height + b.height]

\* SculpturePrinter::new. The BucketedAtlasAllocator is a packer of one
\* shelf: rectangles are placed side by side from the left, `used` is the
\* width taken.
NewPrinter(max_texture_2d) ==
    [allocator |-> [size |-> size_min([width |-> INITIAL_SIZE, height |-> INITIAL_SIZE],
                                      max_texture_2d),
                    used |-> 0],
     glyph_map |-> {},
     need_texture_refresh |-> FALSE,
     max_texture_2d |-> max_texture_2d]

\* SculptureShaper::new
NewShaper == [plans |-> <<>>, fallback |-> <<>>]

\* no worker thread of the two-book specification exists
NoWorkers == <<>>

NoOrigin == [i \in 1..CACHE_CHAPTERS |-> 0]

\* gestures.rs
MAX_MOVES == 4
DEFAULT_MIN_DISTANCE == 200
Fingers == 2            \* F, the number of states of the tracker

\* GestureTracker::new
NewTracker == [min_distance |-> DEFAULT_MIN_DISTANCE,
               states |-> [i \in 1..Fingers |-> None]]

\* spawn_illustrator: the handle's req_tx and the clone in illustrator.req_tx
AllSenders == {"handle", "illustrator"}

\* no content_ready yet
NoBell == [rings |-> 0, loc |-> None]

WorkerIdle ==
    /\ current_loc = Location(0, 0)
    /\ queue = <<>>
    /\ pc = "idle"
    /\ shared = [location |-> Location(0, 0), persisted |-> Location(0, 0)]
    /\ bell = NoBell
    /\ senders = AllSenders
    /\ tree = NewBuilder
    /\ workers = NoWorkers
    /\ origin = NoOrigin
    /\ tracker = NewTracker
    /\ printer = NewPrinter(LibMaxTexture)
    /\ shaper = NewShaper

\* assure_cached with the history of the Params each slot was rendered with
AssureCached(spine_item) ==
    /\ cache' = assure_cached(params, cache, book, spine_item)
    /\ rendered' = IF is_cached(cache, spine_item) THEN rendered
                   ELSE [rendered EXCEPT ![(cache.index % CACHE_CHAPTERS) + 1]
                                             = <<params>>]

InitRender ==
    /\ book \in { <<ch>> : ch \in ChapterSet }
    /\ params \in ParamsSet
    /\ cache = EmptyCache
    /\ rendered = NoRendered
    /\ log = NoLog
    /\ WorkerIdle

RenderChapter ==
    /\ ~is_cached(cache, BookMeta(book)[1])
    /\ AssureCached(BookMeta(book)[1])
    /\ UNCHANGED <<tracker, origin, workers, printer, shaper, tree, senders, book, params, current_loc, queue, pc, shared, bell, log>>

NextRender == RenderChapter

SpecRender == InitRender /\ [][NextRender]_vars

----------------------------------------------------------------------------
(* Entries of the cache *)

Entries(c) == { c.entries[i][1] : i \in { j \in 1..CACHE_CHAPTERS : c.entries[j] # None } }

Overlap(r1, r2) == \E x \in 0..Max(r1.end, r2.end) : contains(r1, x) /\ contains(r2, x)

PagesPartition(e) ==
    LET n == Len(e.pages)
    IN /\ n >= 1
       /\ e.pages[1].elements.start = e.elements.start
       /\ \A k \in 2..n : e.pages[k].elements.start = e.pages[k - 1].elements.end
       /\ \A j, k \in 1..n : j < k => ~Overlap(e.pages[j].elements, e.pages[k].elements)
       /\ e.pages[n].elements.end = e.elements.end

\* C1: for every rendered chapter the pages' element ranges, in page order,
\* partition the chapter's element range: the first page starts at the
\* chapter's start, each page starts where the previous one ends, no two
\* pages overlap, and the last page ends at the chapter's end.
C1_PagesPartitionChapter == \A e \in Entries(cache) : PagesPartition(e)

\* C17: every rendered chapter has at least one page; the First flag is on
\* the page of index 0 and on no other, the Last flag is on the final page of
\* the list and on no other, page indices count from 0; a chapter without
\* display items has exactly one page, carrying both flags.
C17_PageFlags ==
    \A e \in Entries(cache) :
        LET n == Len(e.pages)
        IN /\ n >= 1
           /\ \A i \in 1..n :
                 /\ e.pages[i].index = i - 1
                 /\ "First" \in e.pages[i].position <=> i = 1
                 /\ "Last" \in e.pages[i].position <=> i = n
           /\ (\A i \in 1..n : e.pages[i].items = <<>>)
                 => (n = 1 /\ e.pages[1].position = {"First", "Last"})

\* C17 witness: a rendered chapter of several pages, each with display items
C17_Witness ==
    \E e \in Entries(cache) :
        /\ Len(e.pages) >= 2
        /\ \A i \in 1..Len(e.pages) : e.pages[i].items # <<>>

\* C18: a chapter whose only content is one text run taller than the padded
\* page height is rendered as exactly one page, which holds the run.
C18_OversizedRunOnePage ==
    \A e \in Entries(cache) :
        (/\ book[1] = <<[tag |-> "p", parent |-> 0], [tag |-> "text", parent |-> 1]>>
         /\ page_height_padded(params) > 0
         /\ measure_text(params, TextLen, page_width_padded(params))
               > page_height_padded(params))
            => /\ Len(e.pages) = 1
               /\ Len(e.pages[1].items) = 1

\* C32: every page list that render_resource produces and assure_cached
\* inserts is ordered by non-decreasing elements.start, and every page has
\* elements.start <= elements.end, for any nesting of blocks and text.
C32_PagesSorted ==
    \A e \in Entries(cache) :
        LET n == Len(e.pages)
        IN /\ \A k \in 2..n :
                 e.pages[k - 1].elements.start <= e.pages[k].elements.start
           /\ \A k \in 1..n :
                 e.pages[k].elements.start <= e.pages[k].elements.end

\* the top of a layout node measured from the top of the layout body
RECURSIVE abs_y(_, _, _)
abs_y(settings, tn, id) ==
    IF id = 0 THEN 0
    ELSE layout_y(settings, tn, id) + abs_y(settings, tn, tn[id].parent)

\* the layout nodes of the items of all pages, in page order
RECURSIVE ItemNodes(_)
ItemNodes(pages) ==
    IF pages = <<>> THEN <<>>
    ELSE [k \in 1..Len(pages[1].items) |-> pages[1].items[k].node]
            \o ItemNodes(Tail(pages))

\* the top of page k: the start of the layout for the first page, the top of
\* the item that started the page for every other page
PageTop(settings, tn, pages, k) ==
    IF k = 1 THEN 0 ELSE abs_y(settings, tn, pages[k].items[1].node)

\* C34: each display item is on exactly one page, in document order; every
\* item of a page ends within the padded page height measured from the
\* page's top or is the first item of its page, placed at the page's top;
\* a page is started exactly when the next item's bottom would exceed the
\* padded page height.
C34_ItemsOnPages ==
    \A e \in Entries(cache) :
        LET tn == BuildLayoutTree(book[1])
            H == page_height_padded(params)
            n == Len(e.pages)
            bottom(id) == abs_y(params, tn, id) + layout_height(params, tn, id)
        IN /\ ItemNodes(e.pages)
                 = SelectIdx([i \in 1..Len(tn) |-> tn[i].content = "Text"],
                             1, Len(tn))
           /\ \A k \in 2..n : e.pages[k].items # <<>>
           /\ \A k \in 1..n : \A j \in 1..Len(e.pages[k].items) :
                 LET it == e.pages[k].items[j]
                     top == PageTop(params, tn, e.pages, k)
                 IN /\ it.y = Config.padding.top_em * em(params)
                                 + abs_y(params, tn, it.node) - top
                    /\ it.height = layout_height(params, tn, it.node)
                    /\ \/ bottom(it.node) - top <= H
                       \/ j = 1 /\ abs_y(params, tn, it.node) = top
                    \* no break was due before this item
                    /\ (k = 1 \/ j > 1) => bottom(it.node) - top <= H
                    \* the break before the first item of a later page was due
                    /\ (k > 1 /\ j = 1) =>
                          bottom(it.node)
                             - PageTop(params, tn, e.pages, k - 1) > H

\* C34 witness: a rendered chapter whose first page holds an item that fits
\* and whose second page was started by the next item, which did not fit
\* below it but is not taller than the page
C34_Witness ==
    \E e \in Entries(cache) :
        /\ Len(e.pages) >= 2
        /\ e.pages[1].items # <<>>
        /\ e.pages[2].items # <<>>
        /\ e.pages[2].items[1].y = Config.padding.top_em * em(params)
        /\ e.pages[2].items[1].height <= page_height_padded(params)

----------------------------------------------------------------------------
(* The first pass of render_resource on any body: text, inline elements    *)
(* and blocks in any arrangement, text directly under <body> included.     *)

WalkTags == {"div", "span", "b", "h1", "text"}

\* the bodies of up to max nodes
WalkChapters(max) == UNION { TreesOf(n, WalkTags) : n \in 0..max }

NoWalkLog == [walked |-> FALSE, texts |-> <<>>, text_styles |-> <<>>,
              nodes |-> <<>>]

InitWalk ==
    /\ book \in { <<ch>> : ch \in WalkChapters(MaxWalkNodes) }
    /\ params = InitParams
    /\ cache = EmptyCache
    /\ rendered = NoRendered
    /\ log = NoWalkLog
    /\ WorkerIdle

\* render_resource called by assure_cached, with the state of the walk at
\* the end of the while loop kept
RenderResource ==
    /\ ~is_cached(cache, BookMeta(book)[1])
    /\ AssureCached(BookMeta(book)[1])
    /\ log' = [walked |-> TRUE,
               texts |-> WalkBody(book[1]).texts,
               text_styles |-> WalkBody(book[1]).text_styles,
               nodes |-> WalkBody(book[1]).nodes]
    /\ UNCHANGED <<tracker, origin, workers, printer, shaper, tree, senders, book, params, current_loc, queue, pc, shared, bell>>

NextWalk == RenderResource

SpecWalk == InitWalk /\ [][NextWalk]_vars

\* the Text edges the walk has seen
TextEdges(ch) == SelectIdx([k \in 1..Len(body_iter(ch)) |->
                               body_iter(ch)[k].e = "Text"],
                           1, Len(body_iter(ch)))

\* C33: when the walk over the body's edges ends, no text is pending and no
\* text style is on the stack, and every Text edge under the body is in
\* exactly one text layout node.
C33_WalkLeavesNothing ==
    log.walked =>
        /\ log.texts = <<>>
        /\ log.text_styles = <<>>
        /\ \A k \in 1..Len(body_iter(book[1])) :
              body_iter(book[1])[k].e = "Text" =>
                 Cardinality({ <<n, j>> \in (1..Len(log.nodes)) \X (1..MaxWalkNodes) :
                                 /\ j <= Len(log.nodes[n].texts)
                                 /\ log.nodes[n].texts[j]
                                       = body_iter(book[1])[k].id }) = 1

----------------------------------------------------------------------------
(* The cache with a book of two chapters: chapters are rendered on demand  *)
(* and every Location is looked up and navigated from.                     *)

NavTags == {"div", "p", "text"}

NavBooks ==
    UNION { { <<a, b>> : a \in ChaptersOf(n, NavTags),
                         b \in UNION { ChaptersOf(m, NavTags)
                                         : m \in 0..(MaxBookNodes - n) } }
            : n \in 0..MaxBookNodes }

InitNav ==
    /\ book \in NavBooks
    /\ params \in ParamsSet
    /\ cache = EmptyCache
    /\ rendered = NoRendered
    /\ log = NoLog
    /\ WorkerIdle

NavAssure(i) ==
    /\ ~is_cached(cache, BookMeta(book)[i])
    /\ AssureCached(BookMeta(book)[i])
    /\ UNCHANGED <<tracker, origin, workers, printer, shaper, tree, senders, book, params, current_loc, queue, pc, shared, bell, log>>

NextNav == \E i \in 1..2 : i <= Len(book) /\ NavAssure(i)

SpecNav == InitNav /\ [][NextNav]_vars

\* the Locations of a chapter, one element past the chapter's end included
LocationsOf(b, spine) ==
    { Location(spine, x) : x \in 0..(node_count(b[spine + 1]) + 1) }

AllLocations(b) == UNION { LocationsOf(b, i - 1) : i \in 1..Len(b) }

AllCached == \A i \in 1..Len(book) : is_cached(cache, BookMeta(book)[i])

EntryOf(c, spine) == c.entries[find_entry(c, spine)[1]][1]

\* C3: lookup of a Location of a cached chapter always resolves to a page:
\* an element at or before the first page's start gives the first page, an
\* element at or after the last page's start gives the last page, any other
\* element gives the page whose range contains it.
C3_LookupResolves ==
    \A loc \in AllLocations(book) :
        find_entry(cache, loc.spine) # None =>
            LET e == EntryOf(cache, loc.spine)
                n == Len(e.pages)
            IN /\ page(cache, loc) # None
               /\ loc.element <= e.pages[1].elements.start
                     => page(cache, loc) = <<e.pages[1]>>
               /\ loc.element >= e.pages[n].elements.start
                     => page(cache, loc) = <<e.pages[n]>>
               /\ (/\ loc.element > e.pages[1].elements.start
                   /\ loc.element < e.pages[n].elements.start)
                     => contains(page(cache, loc)[1].elements, loc.element)

\* the page a Location resolves to is an inner one: not the first page of
\* the first chapter and not the last page of the last chapter
NonBoundary(c, b, loc) ==
    /\ page(c, loc) # None
    /\ ~(loc.spine = 0 /\ "First" \in page(c, loc)[1].position)
    /\ ~(loc.spine = Len(b) - 1 /\ "Last" \in page(c, loc)[1].position)

\* C4: from every Location that resolves to a non-boundary page (a Location
\* in the middle of a page included), next_page and then previous_page, with
\* the chapters cached, yields exactly that Location again.
C4_NextThenPreviousReturns ==
    AllCached =>
        \A loc \in AllLocations(book) :
            NonBoundary(cache, book, loc) =>
                previous_page(cache, BookMeta(book),
                              next_page(cache, BookMeta(book), loc)) = loc

\* C5: next_page on the page flagged Last of chapter N (not the final
\* chapter) gives the first element of chapter N+1; previous_page on the page
\* flagged First of chapter N (N > 0) gives the end of chapter N-1's range,
\* which lookup resolves to the last page of chapter N-1.
C5_ChapterBoundaries ==
    \A loc \in AllLocations(book) :
        page(cache, loc) # None =>
            LET pg == page(cache, loc)[1]
                meta == BookMeta(book)
                N == loc.spine
            IN /\ ("Last" \in pg.position /\ N + 1 < Len(book))
                    => next_page(cache, meta, loc)
                          = Location(N + 1, meta[N + 2].elements.start)
               /\ ("First" \in pg.position /\ N > 0)
                    => LET back == previous_page(cache, meta, loc)
                       IN /\ back = Location(N - 1, meta[N].elements.end)
                          /\ is_cached(cache, meta[N])
                               => page(cache, back)
                                     = <<Last(EntryOf(cache, N - 1).pages)>>

\* C5 witness: both chapters are cached, one of them has several pages, and
\* both boundary moves apply
C5_Witness ==
    /\ AllCached
    /\ Len(book) = 2
    /\ \E e \in Entries(cache) : Len(e.pages) >= 2
    /\ \E loc \in LocationsOf(book, 0) :
          page(cache, loc) # None /\ "Last" \in page(cache, loc)[1].position
    /\ \E loc \in LocationsOf(book, 1) :
          page(cache, loc) # None /\ "First" \in page(cache, loc)[1].position

\* the Location is inside the book: its spine index names a spine item and
\* its element index is not past the end of the item's element range
InBook(b, loc) ==
    /\ spine_resource(BookMeta(b), loc) # None
    /\ loc.element <= spine_resource(BookMeta(b), loc)[1].elements.end

\* C19: whatever the cache holds, next_page and previous_page take a location
\* inside the book to a location inside the book, so no sequence of NextPage
\* and PreviousPage leaves the book; next_page on the last page of the last
\* chapter returns the location unchanged.
C19_NavigationStaysInBook ==
    \A loc \in AllLocations(book) :
        InBook(book, loc) =>
            /\ InBook(book, next_page(cache, BookMeta(book), loc))
            /\ InBook(book, previous_page(cache, BookMeta(book), loc))
            /\ (/\ loc.spine = Len(book) - 1
                /\ page(cache, loc) # None
                /\ "Last" \in page(cache, loc)[1].position)
                  => next_page(cache, BookMeta(book), loc) = loc

\* C19 witness: both chapters are cached, a location inside the book resolves
\* to the last page of the last chapter and another one to the first page of
\* the second chapter, from where previous_page crosses to the chapter before
C19_Witness ==
    /\ AllCached
    /\ Len(book) = 2
    /\ \E loc \in LocationsOf(book, 1) :
          /\ InBook(book, loc)
          /\ page(cache, loc) # None
          /\ page(cache, loc)[1].position = {"Last"}
    /\ previous_page(cache, BookMeta(book), Location(1, 0)).spine = 0

\* C31: previous_page from a location that resolves to the page flagged First
\* of chapter 0 (the start of the book) returns the location unchanged, so
\* the location still resolves to the first page of chapter 0.
C31_StartOfBookStays ==
    \A loc \in LocationsOf(book, 0) :
        (/\ InBook(book, loc)
         /\ page(cache, loc) # None
         /\ "First" \in page(cache, loc)[1].position)
            => LET back == previous_page(cache, BookMeta(book), loc)
               IN /\ back = loc
                  /\ page(cache, back) = page(cache, loc)

----------------------------------------------------------------------------
(* The worker thread of spawn_illustrator and the host that sends requests *)

\* books of two chapters made of paragraphs of text
TextParagraphs(ch) ==
    \A i \in 1..Len(ch) : ch[i].tag = "p" => children(ch, i) # <<>>

WorkerChaptersOf(n) == { ch \in BookChaptersOf(n) : TextParagraphs(ch) }

WorkerBooks ==
    UNION { { <<a, b>> : a \in WorkerChaptersOf(n),
                         b \in UNION { WorkerChaptersOf(m)
                                         : m \in 0..(MaxBookNodes - n) } }
            : n \in 0..MaxBookNodes }

\* Resize and Rescale arguments the host sends
Sizes == { <<16, 12>> }
RescaleTo == { 2 }

\* Goto arguments: the table of contents (Navigation::into_toc)
TocLocations(b) == { Location(i - 1, 0) : i \in 1..Len(b) }

Requests(b) ==
    { [type |-> "NextPage"], [type |-> "PreviousPage"] }
      \cup { [type |-> "Goto", loc |-> l] : l \in TocLocations(b) }
      \cup { [type |-> "Resize", width |-> sz[1], height |-> sz[2]] : sz \in Sizes }
      \cup { [type |-> "Rescale", scale |-> sc] : sc \in RescaleTo }

\* the cache when every chapter of the book is rendered with Params p
RECURSIVE RenderAll(_, _, _, _)
RenderAll(p, c, b, i) ==
    IF i > Len(b) THEN c
    ELSE RenderAll(p, assure_cached(p, c, b, BookMeta(b)[i]), b, i + 1)

FullCache(p, b) == RenderAll(p, EmptyCache, b, 1)

\* the navigation step of a request on a fully rendered book
IdealStep(req, p, b, loc) ==
    CASE req.type = "NextPage" -> next_page(FullCache(p, b), BookMeta(b), loc)
      [] req.type = "PreviousPage" -> previous_page(FullCache(p, b), BookMeta(b), loc)
      [] req.type = "Goto" -> req.loc
      [] OTHER -> loc

\* Params after a request
params_after(req, p) ==
    CASE req.type = "Resize" ->
            [p EXCEPT !.page_width = req.width, !.page_height = req.height]
      [] req.type = "Rescale" -> [p EXCEPT !.scale = req.scale]
      [] OTHER -> p

\* the match on the request at the end of the worker's loop
Process(req) ==
    /\ current_loc' =
          CASE req.type = "NextPage" -> next_page(cache, BookMeta(book), current_loc)
            [] req.type = "PreviousPage" ->
                  previous_page(cache, BookMeta(book), current_loc)
            [] req.type = "Goto" -> req.loc
            [] OTHER -> current_loc
    /\ cache' = IF req.type \in {"Resize", "Rescale"} THEN clear(cache) ELSE cache
    /\ rendered' = [i \in 1..CACHE_CHAPTERS |->
                        IF cache'.entries[i] = None THEN None ELSE rendered[i]]
    /\ params' = params_after(req, params)
    /\ pc' = IF req.type = "PreviousPage" /\ previous_page_panics(cache, current_loc)
             THEN "panicked" ELSE "try_recv"

\* a poll that reports an empty channel whatever it holds
try_recv_always_empty(q) == "Empty"

\* req_rx.try_recv()
try_recv(q) == IF q = <<>> THEN "Empty" ELSE "Ok"

InitWorker ==
    /\ book \in WorkerBooks
    /\ params = InitParams
    /\ cache = EmptyCache          \* cache.write().unwrap().clear()
    /\ rendered = NoRendered
    /\ current_loc = Location(0, 0)
    /\ queue = <<>>
    /\ pc = "try_recv"
    /\ shared = [location |-> Location(0, 0), persisted |-> Location(0, 0)]
    /\ bell = NoBell
    /\ log = NoLog
    /\ senders = AllSenders
    /\ tree = NewBuilder
    /\ workers = NoWorkers
    /\ origin = NoOrigin
    /\ tracker = NewTracker
    /\ printer = NewPrinter(LibMaxTexture)
    /\ shaper = NewShaper

\* the host: IllustratorHandle::goto / next_page / previous_page,
\* Illustrator::resize / rescale
Send(req) ==
    /\ log.sends < MaxSends
    /\ Len(queue) < MaxQueue
    /\ queue' = Append(queue, req)
    /\ log' = [log EXCEPT !.sends = @ + 1]
    /\ UNCHANGED <<tracker, origin, workers, printer, shaper, tree, senders, book, params, cache, rendered, current_loc, pc, shared, bell>>

TryRecvOk ==
    /\ pc = "try_recv"
    /\ try_recv(queue) = "Ok"
    /\ Process(Head(queue))
    /\ queue' = Tail(queue)
    /\ log' = [log EXCEPT
                 !.ideal = IdealStep(Head(queue), params', book, @),
                 !.burst = @ + 1]
    /\ UNCHANGED <<tracker, origin, workers, printer, shaper, tree, senders, book, shared, bell>>

TryRecvEmpty ==
    /\ pc = "try_recv"
    /\ try_recv(queue) = "Empty"
    /\ pc' = "render"
    /\ UNCHANGED <<tracker, origin, workers, printer, shaper, tree, senders, book, params, cache, rendered, current_loc, queue, shared, bell, log>>

\* spine_resource(current_loc).expect(..) and assure_cached
Render ==
    /\ pc = "render"
    /\ IF spine_resource(BookMeta(book), current_loc) = None
       THEN /\ pc' = "panicked"
            /\ UNCHANGED <<cache, rendered, log>>
       ELSE /\ AssureCached(spine_resource(BookMeta(book), current_loc)[1])
            /\ pc' = "save"
            /\ log' = [log EXCEPT !.renders = @ + 1]
    /\ UNCHANGED <<tracker, origin, workers, printer, shaper, tree, senders, book, params, current_loc, queue, shared, bell>>

\* a save that writes the shared location and leaves the record as it was
record_location_unpersisted(sh, loc) == [sh EXCEPT !.location = loc]

\* *shared_loc.write() = current_loc; records.record_book_state(id, Some(loc))
record_location(sh, loc) == [location |-> loc, persisted |-> loc]

Save ==
    /\ pc = "save"
    /\ shared' = record_location(shared, current_loc)
    /\ pc' = "ring"
    /\ UNCHANGED <<tracker, origin, workers, printer, shaper, tree, senders, book, params, cache, rendered, current_loc, queue, bell, log>>

\* bell.content_ready(id, current_loc)
Ring ==
    /\ pc = "ring"
    /\ bell' = [rings |-> bell.rings + 1, loc |-> <<current_loc>>]
    /\ pc' = "recv"
    /\ UNCHANGED <<tracker, origin, workers, printer, shaper, tree, senders, book, params, cache, rendered, current_loc, queue, shared, log>>

\* req_rx.recv(): blocks until a request arrives
Recv ==
    /\ pc = "recv"
    /\ queue # <<>>
    /\ Process(Head(queue))
    /\ queue' = Tail(queue)
    /\ log' = [log EXCEPT
                 !.ideal = IdealStep(Head(queue), params', book, @),
                 !.burst = 1,
                 !.recvs = @ + 1]
    /\ UNCHANGED <<tracker, origin, workers, printer, shaper, tree, senders, book, shared, bell>>

Next ==
    \/ \E req \in Requests(book) : Send(req)
    \/ TryRecvOk
    \/ TryRecvEmpty
    \/ Render
    \/ Save
    \/ Ring
    \/ Recv

Spec == InitWorker /\ [][Next]_vars

\* a request is taken from the channel and applied in this step
Dequeues(type) ==
    /\ pc \in {"try_recv", "recv"}
    /\ queue # <<>>
    /\ Head(queue).type = type
    /\ queue' = Tail(queue)

\* the spine item of the worker's current location is in the cache
CurrentCached(c) ==
    /\ spine_resource(BookMeta(book), current_loc) # None
    /\ is_cached(c, spine_resource(BookMeta(book), current_loc)[1])

\* C2: starting from the first page of chapter k of a book with a chapter
\* k+1, NextPage requests that are each processed after the previous render
\* has settled bring the worker to the start of chapter k+1: no such NextPage
\* leaves the worker stuck on its location inside chapter k.
C2_NextPageNotStuck ==
    [][ (/\ pc = "recv"
         /\ Dequeues("NextPage")
         /\ current_loc.spine + 1 < Len(book))
            => current_loc' # current_loc ]_vars

\* C7: processing a Resize or Rescale clears every cache entry, keeps the
\* current location and takes over the new page parameters; every entry of
\* the cache was rendered with the worker's present parameters, so every
\* content_ready is served from pages rendered with them.
C7_ResizeInvalidates ==
    /\ [](\A i \in 1..CACHE_CHAPTERS :
              cache.entries[i] # None => rendered[i] = <<params>>)
    /\ [][ (Dequeues("Resize") \/ Dequeues("Rescale"))
              => /\ Entries(cache') = {}
                 /\ current_loc' = current_loc
                 /\ params' = params_after(Head(queue), params) ]_vars
    /\ [][ bell'.rings > bell.rings
              => /\ CurrentCached(cache)
                 /\ bell'.loc = <<current_loc>>
                 /\ rendered[find_entry(cache, current_loc.spine)[1]] = <<params>> ]_vars

\* C7 witness: a content_ready after a resize or rescale was processed
C7_Witness ==
    /\ pc = "recv"
    /\ bell.rings >= 2
    /\ params # InitParams
    /\ CurrentCached(cache)

\* C8: requests are applied in sending order and none is dropped: the
\* worker's location always equals the result of applying the navigation step
\* of each dequeued request, in order, on the fully rendered book.
C8_AppliedAsOnRenderedBook == current_loc = log.ideal

\* C9: the worker enters a render only from a poll of the channel that found
\* it empty, so every request that was queued is applied before the render;
\* renders and notifications come one per drained burst, not one per request.
C9_RenderOnlyAfterDrain ==
    /\ [][ (pc' = "render" /\ pc # "render")
              => (pc = "try_recv" /\ queue = <<>>) ]_vars
    /\ [](log.renders <= log.recvs + 1 /\ bell.rings <= log.renders)

\* C9 witness: a burst of at least two requests was drained and followed by
\* one render and its content_ready
C9_Witness ==
    /\ pc = "recv"
    /\ log.burst >= 2
    /\ bell.rings >= 1

\* C10: every settled render is followed by exactly one content_ready that
\* carries the current location, and at that moment the cache holds the
\* location's chapter and resolves the location to a page.
C10_ReadyResolves ==
    /\ [][ bell'.rings > bell.rings
              => /\ bell'.rings = bell.rings + 1
                 /\ bell'.loc = <<current_loc>>
                 /\ CurrentCached(cache')
                 /\ page(cache', current_loc) # None ]_vars
    /\ [](/\ log.renders - bell.rings \in {0, 1}
          /\ pc \in {"recv", "try_recv"} => log.renders = bell.rings)

----------------------------------------------------------------------------
(* The cache as a ring: chapters of one book are rendered into it, looked  *)
(* up and cleared in any order.                                            *)

RingBook == [i \in 1..RingChapters |->
                <<[tag |-> "p", parent |-> 0], [tag |-> "text", parent |-> 1]>>]

InitRing ==
    /\ book = RingBook
    /\ params = InitParams
    /\ cache = EmptyCache
    /\ rendered = NoRendered
    /\ log = NoLog
    /\ WorkerIdle

RingAssure(i) ==
    /\ cache.index < MaxInserts
    /\ ~is_cached(cache, BookMeta(book)[i])
    /\ AssureCached(BookMeta(book)[i])
    /\ log' = [log EXCEPT !.inserted = Append(@, i - 1)]
    /\ UNCHANGED <<tracker, origin, workers, printer, shaper, tree, senders, book, params, current_loc, queue, pc, shared, bell>>

RingLookup(loc) ==
    /\ log' = [log EXCEPT !.read = IF page(cache, loc) = None THEN "miss" ELSE "hit"]
    /\ UNCHANGED <<tracker, origin, workers, printer, shaper, tree, senders, book, params, cache, rendered, current_loc, queue, pc, shared, bell>>

RingClear ==
    /\ cache' = clear(cache)
    /\ rendered' = NoRendered
    /\ log' = [log EXCEPT !.inserted = <<>>, !.base = cache.index]
    /\ UNCHANGED <<tracker, origin, workers, printer, shaper, tree, senders, book, params, current_loc, queue, pc, shared, bell>>

NextRing ==
    \/ \E i \in 1..RingChapters : RingAssure(i)
    \/ \E i \in 1..RingChapters : RingLookup(Location(i - 1, 0))
    \/ RingClear

SpecRing == InitRing /\ [][NextRing]_vars

\* the insertions since the last clear that went to slot i (slots from 1)
InsertionsInto(i) ==
    { k \in 1..Len(log.inserted) : ((log.base + k - 1) % CACHE_CHAPTERS) + 1 = i }

\* C6: the cache holds at most 5 chapters; each slot holds the chapter of
\* the latest insertion that went to it, the k-th insertion (k > 5) going to
\* the slot of insertion k-5, so the cache holds the 5 most recently inserted
\* chapters whatever was read in between.
C6_RingOfFive ==
    LET n == Len(log.inserted)
    IN /\ Cardinality(Entries(cache)) <= CACHE_CHAPTERS
       /\ \A i \in 1..CACHE_CHAPTERS :
            IF InsertionsInto(i) = {}
            THEN cache.entries[i] = None
            ELSE /\ cache.entries[i] # None
                 /\ cache.entries[i][1].spine
                      = log.inserted[CHOOSE k \in InsertionsInto(i) :
                                        \A j \in InsertionsInto(i) : j <= k]
       /\ { e.spine : e \in Entries(cache) }
            = { log.inserted[k] : k \in { j \in 1..n : j > n - CACHE_CHAPTERS } }

\* C6 witness: a sixth chapter was inserted since the last clear, after reads
C6_Witness ==
    /\ Len(log.inserted) > CACHE_CHAPTERS
    /\ log.read = "hit"

----------------------------------------------------------------------------
(* The life of one worker thread: a book with any spine and any stored     *)
(* location is opened, the host sends any request, rendering and recording *)
(* can fail, the handle is dropped and another book is opened.             *)

LifeP == <<[tag |-> "p", parent |-> 0], [tag |-> "text", parent |-> 1]>>

LifePP == LifeP \o <<[tag |-> "p", parent |-> 0], [tag |-> "text", parent |-> 3]>>

\* an empty spine, one chapter of two pages, two chapters
LifeBooks == { <<>>, <<LifePP>>, <<LifeP, LifePP>> }

\* Location values as stored for the book and as passed to goto: any u32 pair
StoredLocations == { Location(s, e) : s \in {0, 1, 2}, e \in {0, 20} }

LifeRequests ==
    { [type |-> "NextPage"], [type |-> "PreviousPage"] }
      \cup { [type |-> "Goto", loc |-> l] : l \in { Location(1, 7), Location(2, 0) } }
      \cup { [type |-> "Resize", width |-> sz[1], height |-> sz[2]] : sz \in Sizes }

\* the thread has returned or unwound: the receiver of the channel is gone
Dead == {"panicked", "err_render", "err_record", "terminated"}

\* the worker's first current_loc, from the stored location of the book
initial_location(book_meta, book_loc) ==
    IF spine_resource(book_meta, book_loc) # None THEN book_loc ELSE Location(0, 0)

InitLife ==
    /\ book \in LifeBooks
    /\ params = InitParams
    /\ cache = EmptyCache
    /\ rendered = NoRendered
    /\ \E stored \in StoredLocations :
          /\ shared = [location |-> stored, persisted |-> stored]
          /\ current_loc = initial_location(BookMeta(book), stored)
    /\ queue = <<>>
    /\ pc = "try_recv"
    /\ bell = NoBell
    /\ log = NoLog
    /\ senders = AllSenders
    /\ tree = NewBuilder
    /\ workers = NoWorkers
    /\ origin = NoOrigin
    /\ tracker = NewTracker
    /\ printer = NewPrinter(LibMaxTexture)
    /\ shaper = NewShaper

\* IllustratorHandle::goto / next_page / previous_page
HandleSend(req) ==
    /\ "handle" \in senders
    /\ req.type \in {"NextPage", "PreviousPage", "Goto"}
    /\ pc \notin Dead          \* else Err(NotRunning), nothing changes
    /\ Send(req)

\* Illustrator::resize: a failed send forgets the sender
IllustratorSend(req) ==
    /\ "illustrator" \in senders
    /\ req.type \in {"Resize", "Rescale"}
    /\ IF pc \in Dead
       THEN /\ senders' = senders \ {"illustrator"}
            /\ UNCHANGED <<tracker, origin, workers, printer, shaper, tree, book, params, cache, rendered, current_loc, queue, pc,
                           shared, bell, log>>
       ELSE Send(req)

\* the host closes the book: the IllustratorHandle and its req_tx are dropped
DropHandle ==
    /\ "handle" \in senders
    /\ senders' = senders \ {"handle"}
    /\ UNCHANGED <<tracker, origin, workers, printer, shaper, tree, book, params, cache, rendered, current_loc, queue, pc,
                   shared, bell, log>>

\* spawn_illustrator for another book overwrites illustrator.req_tx
SpawnNext ==
    /\ "handle" \notin senders
    /\ "illustrator" \in senders
    /\ senders' = senders \ {"illustrator"}
    /\ UNCHANGED <<tracker, origin, workers, printer, shaper, tree, book, params, cache, rendered, current_loc, queue, pc,
                   shared, bell, log>>

\* try_recv on an empty channel whose senders are all gone
TryRecvDisconnected ==
    /\ pc = "try_recv"
    /\ queue = <<>>
    /\ senders = {}
    /\ pc' = "terminated"
    /\ UNCHANGED <<tracker, origin, workers, printer, shaper, tree, senders, book, params, cache, rendered, current_loc, queue,
                   shared, bell, log>>

\* a failed render that stores an empty page list before it returns
render_failed_inserts(c, spine_item) == insert(c, spine_item, <<>>)

\* the cache after assure_cached returned Err: render_resource(..)? returns
\* before cache.insert
render_failed(c, spine_item) == c

\* assure_cached(..)?: the render fails and the thread returns the error
RenderFails ==
    /\ pc = "render"
    /\ spine_resource(BookMeta(book), current_loc) # None
    /\ LET item == spine_resource(BookMeta(book), current_loc)[1]
       IN /\ ~is_cached(cache, item)
          /\ cache' = render_failed(cache, item)
    /\ pc' = "err_render"
    /\ UNCHANGED <<tracker, origin, workers, printer, shaper, tree, senders, book, params, rendered, current_loc, queue, shared,
                   bell, log>>

\* record_book_state(..)?: the shared location is written, the record is not
SaveFails ==
    /\ pc = "save"
    /\ shared' = [shared EXCEPT !.location = current_loc]
    /\ pc' = "err_record"
    /\ UNCHANGED <<tracker, origin, workers, printer, shaper, tree, senders, book, params, cache, rendered, current_loc, queue,
                   bell, log>>

\* recv() returns Err once the channel is empty and every sender is gone
RecvDisconnected ==
    /\ pc = "recv"
    /\ queue = <<>>
    /\ senders = {}
    /\ pc' = "terminated"
    /\ UNCHANGED <<tracker, origin, workers, printer, shaper, tree, senders, book, params, cache, rendered, current_loc, queue,
                   shared, bell, log>>

\* one step of the worker thread
WorkerNext ==
    \/ TryRecvOk
    \/ (senders # {} /\ TryRecvEmpty)
    \/ TryRecvDisconnected
    \/ Render
    \/ RenderFails
    \/ Save
    \/ SaveFails
    \/ Ring
    \/ Recv
    \/ RecvDisconnected

\* one step of the host
HostNext ==
    \/ \E req \in LifeRequests : HandleSend(req)
    \/ \E req \in LifeRequests : IllustratorSend(req)
    \/ DropHandle
    \/ SpawnNext

NextLife == WorkerNext \/ HostNext

SpecLife == InitLife /\ [][NextLife]_vars

\* a book of two chapters with empty bodies, opened at any stored location
InitClose ==
    /\ book = << <<>>, <<>> >>
    /\ params = InitParams
    /\ cache = EmptyCache
    /\ rendered = NoRendered
    /\ \E stored \in StoredLocations :
          /\ shared = [location |-> stored, persisted |-> stored]
          /\ current_loc = initial_location(BookMeta(book), stored)
    /\ queue = <<>>
    /\ pc = "try_recv"
    /\ bell = NoBell
    /\ log = NoLog
    /\ senders = AllSenders
    /\ tree = NewBuilder
    /\ workers = NoWorkers
    /\ origin = NoOrigin
    /\ tracker = NewTracker
    /\ printer = NewPrinter(LibMaxTexture)
    /\ shaper = NewShaper

\* the host closes the book; afterwards it can only resize or open a book
NextClose ==
    \/ WorkerNext
    \/ \E req \in LifeRequests : IllustratorSend(req)
    \/ DropHandle
    \/ SpawnNext

\* the worker thread is scheduled as long as it can take a step
SpecClose == InitClose /\ [][NextClose]_vars /\ WF_vars(WorkerNext)

\* C11: whatever the host sends, Goto with any Location included, and for any
\* book, an empty spine included, the worker never panics: neither the
\* expectation on the spine item of the current location nor the navigation
\* expectations fail.
C11_WorkerNeverPanics == [](pc # "panicked")

\* C12: a render that fails never ends the worker thread: the worker goes on
\* to receive the requests sent after the failure.
C12_WorkerSurvivesRenderFailure == [](pc # "err_render")

\* C13: a render that fails leaves the cache as it was when the render
\* started: the entries and the ring index are unchanged.
C13_FailedRenderKeepsCache == [][ pc' = "err_render" => cache' = cache ]_vars

\* C13 witness: a render failed while the cache held an earlier chapter
C13_Witness ==
    /\ pc = "err_render"
    /\ Entries(cache) # {}
    /\ ~CurrentCached(cache)

\* C14: once the host has dropped the IllustratorHandle the worker thread
\* terminates; it does not stay blocked in its receive.
C14_DropTerminatesWorker == ("handle" \notin senders) ~> (pc \in Dead)

\* the Location names a spine item and an element inside its element range
InRange(b, loc) ==
    /\ spine_resource(BookMeta(b), loc) # None
    /\ contains(spine_resource(BookMeta(b), loc)[1].elements, loc.element)

\* C15: before the first request is applied the worker's location is the
\* stored Location if that names a spine item and an element inside the
\* item's range, and Location{0, 0} otherwise; the first content_ready
\* carries that location.
C15_InitialLocation ==
    (log.burst = 0 /\ log.recvs = 0 /\ bell.rings = 0 /\ pc \in {"try_recv", "render"})
        => current_loc = IF InRange(book, shared.persisted)
                         THEN shared.persisted ELSE Location(0, 0)

\* C16: at every content_ready(id, loc) the shared location and the
\* persisted location already equal loc.
C16_SavedBeforeReady ==
    [][ bell'.rings > bell.rings
          => /\ bell'.loc = <<current_loc>>
             /\ shared.location = current_loc
             /\ shared.persisted = current_loc ]_vars

\* C16 witness: a content_ready after a page transition away from the
\* location the book was opened at
C16_Witness ==
    /\ pc = "recv"
    /\ bell.rings >= 2
    /\ log.recvs >= 1
    /\ bell.loc = <<shared.persisted>>
    /\ shared.persisted = Location(1, 0)

----------------------------------------------------------------------------
(* scale_to_fit on f32.  A positive normal f32 is [m, e] with the 24-bit   *)
(* significand 2^23 <= m < 2^24 and the value m * 2^e; division and        *)
(* multiplication round to nearest, ties to even, as the hardware does.    *)
(* The inputs below keep every result in the normal range.                 *)

P24 == 2^24
P23 == 2^23
P12 == 2^12

RECURSIVE f32_normal(_, _)
f32_normal(m, e) == IF m < P23 THEN f32_normal(2 * m, e - 1) ELSE [m |-> m, e |-> e]

\* the f32 of a whole number 0 < n < 2^24 (`as f32`, exact)
f32_of(n) == f32_normal(n, 0)

f32_one == f32_of(1)

\* a < b and a <= b on positive normal f32
f32_lt(a, b) == a.e < b.e \/ (a.e = b.e /\ a.m < b.m)
f32_le(a, b) == ~f32_lt(b, a)

\* f32::min
f32_min(a, b) == IF f32_lt(b, a) THEN b ELSE a

\* round to nearest, ties to even: q holds the significand and below it
\* the round bit, sticky says whether anything lies below the round bit
f32_round(q, sticky, e) ==
    LET m == q \div 2
        up == (q % 2 = 1) /\ (sticky \/ m % 2 = 1)
        m1 == IF up THEN m + 1 ELSE m
    IN IF m1 = P24 THEN [m |-> P23, e |-> e + 1] ELSE [m |-> m1, e |-> e]

\* k steps of binary long division of remainder r < d by d
RECURSIVE div_steps(_, _, _, _)
div_steps(q, r, d, k) ==
    IF k = 0 THEN [q |-> q, r |-> r]
    ELSE IF 2 * r >= d THEN div_steps(2 * q + 1, 2 * r - d, d, k - 1)
         ELSE div_steps(2 * q, 2 * r, d, k - 1)

\* a / b on f32
f32_div(a, b) ==
    LET q0 == IF a.m >= b.m THEN 1 ELSE 0
        k == IF a.m >= b.m THEN 24 ELSE 25
        d == div_steps(q0, a.m - q0 * b.m, b.m, k)
    IN f32_round(d.q, d.r # 0, a.e - b.e - k + 1)

\* a * b on f32: the 48-bit product of the significands in two 24-bit words
f32_mul(a, b) ==
    LET ah == a.m \div P12
        al == a.m % P12
        bh == b.m \div P12
        bl == b.m % P12
        mid == ah * bl + al * bh
        lo_raw == (mid % P12) * P12 + al * bl
        lo == lo_raw % P24
        hi == ah * bh + mid \div P12 + lo_raw \div P24
    IN IF hi >= P23
       THEN f32_round(2 * hi + lo \div P23, lo % P23 # 0, a.e + b.e + 24)
       ELSE f32_round(4 * hi + lo \div (P23 \div 2), lo % (P23 \div 2) # 0,
                      a.e + b.e + 23)

scale_to_fit(width, height, max_width, max_height) ==
    IF f32_lt(width, max_width) /\ f32_lt(height, max_height)
    THEN f32_one
    ELSE f32_min(f32_div(max_width, width), f32_div(max_height, height))

\* sizes of images and pages, in pixels
Pixels == { f32_of(n) : n \in {3, 7, 21, 600} }

NoScaleLog == [called |-> FALSE, width |-> f32_one, height |-> f32_one,
               max_width |-> f32_one, max_height |-> f32_one,
               scale |-> f32_one]

InitScale ==
    /\ book = <<>>
    /\ params = InitParams
    /\ cache = EmptyCache
    /\ rendered = NoRendered
    /\ log = NoScaleLog
    /\ WorkerIdle

\* the svg arm of render_resource: the scale of an image of width x height
\* on a padded page of max_width x max_height
ScaleToFit(width, height, max_width, max_height) ==
    /\ log' = [called |-> TRUE, width |-> width, height |-> height,
               max_width |-> max_width, max_height |-> max_height,
               scale |-> scale_to_fit(width, height, max_width, max_height)]
    /\ UNCHANGED <<book, params, cache, rendered, current_loc, queue, pc,
                   shared, bell, senders, tree, printer, shaper, workers,
                   origin, tracker>>

NextScale == \E w, h, mw, mh \in Pixels : ScaleToFit(w, h, mw, mh)

SpecScale == InitScale /\ [][NextScale]_vars

\* C39: for positive width, height, max_width and max_height scale_to_fit
\* returns a scale s with 0 < s <= 1, width * s <= max_width and
\* height * s <= max_height, and exactly 1 when the image already fits.
C39_ScaleFits ==
    log.called =>
        /\ log.scale.m > 0
        /\ f32_le(log.scale, f32_one)
        /\ f32_le(f32_mul(log.width, log.scale), log.max_width)
        /\ f32_le(f32_mul(log.height, log.scale), log.max_height)
        /\ (f32_le(log.width, log.max_width) /\ f32_le(log.height, log.max_height))
              => log.scale = f32_one

----------------------------------------------------------------------------
(* Two books opened one after the other: each spawn_illustrator starts a   *)
(* thread of its own, the threads share the Illustrator's page cache, and  *)
(* nothing joins the thread of the book opened first.  assure_cached takes *)
(* the cache's lock twice: to read is_cached, and later to insert.         *)

OpenBooks == { <<LifeP>>, <<LifePP>>, <<LifeP, LifePP>>, <<LifePP, LifeP>> }

OpenRequests == { [type |-> "NextPage"], [type |-> "PreviousPage"] }

NewWorker(b, pc0) ==
    [pc |-> pc0, book |-> b, current_loc |-> Location(0, 0), item |-> None,
     connected |-> TRUE, stale |-> FALSE]

InitOpen ==
    /\ book = <<>>
    /\ params = InitParams
    /\ cache = EmptyCache
    /\ rendered = NoRendered
    /\ log = NoLog
    /\ current_loc = Location(0, 0)
    /\ queue = <<>>
    /\ pc = "idle"
    /\ shared = [location |-> Location(0, 0), persisted |-> Location(0, 0)]
    /\ bell = NoBell
    /\ senders = AllSenders
    /\ tree = NewBuilder
    /\ printer = NewPrinter(LibMaxTexture)
    /\ shaper = NewShaper
    /\ tracker = NewTracker
    /\ origin = NoOrigin
    /\ \E b1, b2 \in OpenBooks :
          workers = <<NewWorker(b1, "start"), NewWorker(b2, "unspawned")>>

OpenFrame ==
    UNCHANGED <<book, params, rendered, current_loc, queue, pc, shared, bell,
                log, senders, tree, printer, shaper, tracker>>

\* the host opens the second book: spawn_illustrator overwrites
\* illustrator.req_tx and the handle of the first book is dropped
SpawnSecond ==
    /\ workers[2].pc = "unspawned"
    /\ workers' = [workers EXCEPT ![2].pc = "start", ![1].connected = FALSE]
    /\ UNCHANGED <<cache, origin>>
    /\ OpenFrame

\* the thread's start: cache.write().unwrap().clear() and the first location
StartUpClear(w) ==
    /\ workers[w].pc = "start"
    /\ cache' = clear(cache)
    /\ origin' = NoOrigin
    /\ workers' = [workers EXCEPT
          ![w].pc = "try_recv",
          ![w].current_loc = initial_location(BookMeta(workers[w].book),
                                              Location(0, 0))]
    /\ OpenFrame

\* try_recv finds the channel empty
WorkerTryRecvEmpty(w) ==
    /\ workers[w].pc = "try_recv"
    /\ workers[w].connected
    /\ workers' = [workers EXCEPT ![w].pc = "is_cached"]
    /\ UNCHANGED <<cache, origin>>
    /\ OpenFrame

\* try_recv or recv finds every sender gone: the thread returns
WorkerDisconnected(w) ==
    /\ workers[w].pc \in {"try_recv", "recv"}
    /\ ~workers[w].connected
    /\ workers' = [workers EXCEPT ![w].pc = "terminated"]
    /\ UNCHANGED <<cache, origin>>
    /\ OpenFrame

\* assure_cached, first half: cache.read().unwrap().is_cached(item)
WorkerIsCached(w) ==
    /\ workers[w].pc = "is_cached"
    /\ LET me == workers[w]
           item == spine_resource(BookMeta(me.book), me.current_loc)[1]
       IN IF is_cached(cache, item)
          THEN workers' = [workers EXCEPT
                  ![w].pc = "recv",
                  ![w].stale = @ \/ origin[find_entry(cache, item.index)[1]] # w]
          ELSE workers' = [workers EXCEPT ![w].pc = "render",
                                          ![w].item = <<item>>]
    /\ UNCHANGED <<cache, origin>>
    /\ OpenFrame

\* assure_cached, second half: render_resource, then cache.write() and insert;
\* the location is saved and the thread waits in recv
WorkerInsert(w) ==
    /\ workers[w].pc = "render"
    /\ LET me == workers[w]
           item == me.item[1]
       IN /\ cache' = insert(cache, item,
                             render_resource(params, me.book[item.index + 1]))
          /\ origin' = [origin EXCEPT ![(cache.index % CACHE_CHAPTERS) + 1] = w]
    /\ workers' = [workers EXCEPT ![w].pc = "recv", ![w].item = None]
    /\ OpenFrame

\* recv returns a request of the host and the match at the loop's end runs
WorkerNavigate(w, req) ==
    /\ workers[w].pc = "recv"
    /\ workers[w].connected
    /\ LET me == workers[w]
       IN workers' = [workers EXCEPT
             ![w].pc = "try_recv",
             ![w].current_loc =
                IF req.type = "NextPage"
                THEN next_page(cache, BookMeta(me.book), me.current_loc)
                ELSE previous_page(cache, BookMeta(me.book), me.current_loc)]
    /\ UNCHANGED <<cache, origin>>
    /\ OpenFrame

NextOpen ==
    \/ SpawnSecond
    \/ \E w \in 1..2 :
          \/ StartUpClear(w)
          \/ WorkerTryRecvEmpty(w)
          \/ WorkerDisconnected(w)
          \/ WorkerIsCached(w)
          \/ WorkerInsert(w)
          \/ \E req \in OpenRequests : WorkerNavigate(w, req)

SpecOpen == InitOpen /\ [][NextOpen]_vars

\* C35: once the worker of the second book has cleared the cache at its
\* start, every entry in the shared cache was inserted by that worker, and
\* that worker never finds a chapter cached that the first worker inserted.
C35_NoStaleChapter ==
    workers[2].pc \notin {"unspawned", "start"} =>
        /\ \A i \in 1..CACHE_CHAPTERS : cache.entries[i] # None => origin[i] = 2
        /\ ~workers[2].stale

----------------------------------------------------------------------------
(* The tree builder: html5ever drives NodeTreeBuilder through TreeSink.    *)
(* Node ids count from 1 in creation order; 0 stands for no node. The      *)
(* content of a Text node is the sequence of the strings pushed into it.   *)

\* strings the tokenizer hands over: two words and one of whitespace only
TextInputs == {"a", "b", " "}

trim_is_empty_never(t) == FALSE

\* str::trim().is_empty()
trim_is_empty(t) == t = " "

\* TaffyTree::new_leaf_with_context; the new node's id is Len(t.nodes) + 1
new_leaf(t, ctx) ==
    [t EXCEPT !.nodes = Append(@, ctx),
              !.children = Append(@, <<>>),
              !.parent = Append(@, 0)]

\* TaffyTree::add_child
add_child(t, parent, child) ==
    [t EXCEPT !.parent[child] = parent,
              !.children[parent] = Append(@, child)]

\* Iterator::position, counting from 0
Position(seq, x) ==
    IF \E i \in 1..Len(seq) : seq[i] = x
    THEN <<(CHOOSE i \in 1..Len(seq) :
               seq[i] = x /\ \A j \in 1..(i - 1) : seq[j] # x) - 1>>
    ELSE None

\* TaffyTree::insert_child_at_index, for an index within the child list
insert_child_at_index(t, parent, index, child) ==
    [t EXCEPT !.parent[child] = parent,
              !.children[parent] =
                  SubSeq(@, 1, index) \o <<child>> \o SubSeq(@, index + 1, Len(@))]

remove_child_keeps_link(t, parent, child) ==
    LET i == Position(t.children[parent], child)[1] + 1
    IN [t EXCEPT !.children[parent] = SubSeq(@, 1, i - 1) \o SubSeq(@, i + 1, Len(@))]

\* TaffyTree::remove_child
remove_child(t, parent, child) ==
    LET i == Position(t.children[parent], child)[1] + 1
    IN [t EXCEPT !.parent[child] = 0,
                 !.children[parent] = SubSeq(@, 1, i - 1) \o SubSeq(@, i + 1, Len(@))]

\* TaffyTree::child_at_index
child_at_index(t, parent, index) ==
    IF index >= 0 /\ index < Len(t.children[parent])
    THEN <<t.children[parent][index + 1]>> ELSE None

\* usize subtraction in the release build: 0 - 1 wraps to usize::MAX, which
\* is past the end of every child list
wrapping_sub1(x) == IF x = 0 THEN -1 ELSE x - 1

TextNode(t, tok) == new_leaf(t, [kind |-> "Text", t |-> <<tok>>])

\* Tendril::push_tendril on the Text of node id
push_tendril(t, id, tok) == [t EXCEPT !.nodes[id].t = Append(@, tok)]

\* TreeSink::create_element; an element named body becomes the body marker
create_element(t, is_body) ==
    LET t1 == new_leaf(t, [kind |-> "Element", t |-> <<>>])
    IN IF is_body THEN [t1 EXCEPT !.body = Len(t1.nodes)] ELSE t1

\* TreeSink::create_comment: a leaf without node context
create_comment(t) == new_leaf(t, [kind |-> "None", t |-> <<>>])

\* NodeTreeBuilder::append_safe with NodeOrText::AppendNode
append_node(t, parent, node_id) == add_child(t, parent, node_id)

\* NodeTreeBuilder::append_safe with NodeOrText::AppendText
append_text(t, parent, tok) ==
    IF trim_is_empty(tok) THEN t
    ELSE LET cs == t.children[parent]
         IN IF cs # <<>> /\ t.nodes[Last(cs)].kind = "Text"
            THEN push_tendril(t, Last(cs), tok)
            ELSE add_child(TextNode(t, tok), parent, Len(t.nodes) + 1)

\* the index of the sibling in its parent's child list, 0 if it is not there
sibling_index(t, sibling) ==
    LET pos == Position(t.children[t.parent[sibling]], sibling)
    IN IF pos = None THEN 0 ELSE pos[1]

\* NodeTreeBuilder::append_before_sibling_safe with NodeOrText::AppendNode;
\* a sibling without parent is the error SiblingHasNoParent
append_node_before_sibling(t, sibling, node) ==
    IF t.parent[sibling] = 0 THEN t
    ELSE LET parent == t.parent[sibling]
             index == sibling_index(t, sibling)
             t1 == IF t.parent[node] # 0
                   THEN remove_child(t, t.parent[node], node) ELSE t
         IN IF index > Len(t1.children[parent]) THEN t1
            ELSE insert_child_at_index(t1, parent, index, node)

\* NodeTreeBuilder::append_before_sibling_safe with NodeOrText::AppendText
append_text_before_sibling(t, sibling, tok) ==
    IF t.parent[sibling] = 0 THEN t
    ELSE IF trim_is_empty(tok) THEN t
    ELSE LET parent == t.parent[sibling]
             index == sibling_index(t, sibling)
             before == child_at_index(t, parent, wrapping_sub1(index))
         IN IF before # None /\ t.nodes[before[1]].kind = "Text"
            THEN push_tendril(t, before[1], tok)
            ELSE insert_child_at_index(TextNode(t, tok), parent, index,
                                       Len(t.nodes) + 1)

\* NodeOrText: a handle to append or a string of text
AppendNodeOf(node) == [kind |-> "AppendNode", node |-> node, t |-> ""]
AppendTextOf(tok) == [kind |-> "AppendText", node |-> 0, t |-> tok]

append_before_sibling_safe_ok(t, sibling, new_node) ==
    [result |-> "Ok",
     tree |-> IF new_node.kind = "AppendNode"
              THEN append_node_before_sibling(t, sibling, new_node.node)
              ELSE append_text_before_sibling(t, sibling, new_node.t)]

\* NodeTreeBuilder::append_before_sibling_safe: its Result and the tree it
\* leaves; TreeSink::append_before_sibling logs the error and goes on
append_before_sibling_safe(t, sibling, new_node) ==
    IF t.parent[sibling] = 0
    THEN [result |-> "SiblingHasNoParent", tree |-> t]
    ELSE [result |-> "Ok",
          tree |-> IF new_node.kind = "AppendNode"
                   THEN append_node_before_sibling(t, sibling, new_node.node)
                   ELSE append_text_before_sibling(t, sibling, new_node.t)]

\* usize::checked_sub(1): None when the subtraction underflows
checked_sub1(x) == IF x = 0 THEN None ELSE <<x - 1>>

\* append_before_sibling_safe with NodeOrText::AppendText of text that is not
\* whitespace, in every build: where `sibling_index - 1` underflows, a build
\* with overflow checks panics at the subtraction and a build without them
\* goes on with the wrapped index
append_text_before_sibling_builds(t, sibling, tok) ==
    IF checked_sub1(sibling_index(t, sibling)) = None
    THEN { [result |-> "panic", wrapped |-> FALSE, tree |-> t],
           [result |-> "Ok", wrapped |-> TRUE,
            tree |-> append_text_before_sibling(t, sibling, tok)] }
    ELSE { [result |-> "Ok", wrapped |-> FALSE,
            tree |-> append_text_before_sibling(t, sibling, tok)] }

\* the loop of reparent_children_safe over the children of node
RECURSIVE reparent_each(_, _, _, _)
reparent_each(t, node, new_parent, cs) ==
    IF cs = <<>> THEN t
    ELSE reparent_each(add_child(remove_child(t, node, Head(cs)), new_parent, Head(cs)),
                       node, new_parent, Tail(cs))

\* NodeTreeBuilder::reparent_children_safe
reparent_children(t, node, new_parent) ==
    reparent_each(t, node, new_parent, t.children[node])

\* NodeTreeBuilder::remove_from_parent_safe
remove_from_parent(t, target) ==
    IF t.parent[target] # 0 THEN remove_child(t, t.parent[target], target) ELSE t

\* TreeSink::parse_error
parse_error(t, msg) == [t EXCEPT !.parse_errors = Append(@, msg)]

\* TaffyTree::clear: all nodes are dropped
tree_clear(t) == [t EXCEPT !.nodes = <<>>, !.children = <<>>, !.parent = <<>>]

into_builder_keeps_errors(t) ==
    LET t1 == new_leaf(tree_clear(t), [kind |-> "None", t |-> <<>>])
        t2 == new_leaf(t1, [kind |-> "None", t |-> <<>>])
    IN [t2 EXCEPT !.root = Len(t1.nodes), !.error = Len(t2.nodes), !.body = 0]

\* TreeSink::finish and NodeTree::into_builder: the tree and the vector of
\* parse errors are cleared and used again, root and error are new leaves
into_builder(t) ==
    LET t1 == new_leaf(tree_clear(t), [kind |-> "None", t |-> <<>>])
        t2 == new_leaf(t1, [kind |-> "None", t |-> <<>>])
    IN [t2 EXCEPT !.root = Len(t1.nodes), !.error = Len(t2.nodes), !.body = 0,
                  !.parse_errors = <<>>]

\* NodeTreeIter::child_edges_rev without the rev()
tree_child_edges_in_order(t, id) ==
    LET HasContext(c) == t.nodes[c].kind # "None"
        cs == SelectSeq(t.children[id], HasContext)
    IN [k \in 1..Len(cs) |->
          IF t.nodes[cs[k]].kind = "Text"
          THEN [e |-> "Text", id |-> cs[k], t |-> t.nodes[cs[k]].t]
          ELSE [e |-> "OpenElement", id |-> cs[k], t |-> <<>>]]

\* NodeTreeIter::child_edges_rev on the builder's tree: the children in
\* reverse, those without node context (comments) left out
tree_child_edges_rev(t, id) ==
    LET HasContext(c) == t.nodes[c].kind # "None"
        cs == SelectSeq(Reverse(t.children[id]), HasContext)
    IN [k \in 1..Len(cs) |->
          IF t.nodes[cs[k]].kind = "Text"
          THEN [e |-> "Text", id |-> cs[k], t |-> t.nodes[cs[k]].t]
          ELSE [e |-> "OpenElement", id |-> cs[k], t |-> <<>>]]

\* Iterator::next of NodeTreeIter until None; the top of the stack is its end
RECURSIVE node_tree_iter_next(_, _, _)
node_tree_iter_next(t, stack, out) ==
    IF stack = <<>> THEN out
    ELSE LET node == Last(stack)
             rest == Front(stack)
         IN IF node.e = "OpenElement"
            THEN node_tree_iter_next(t,
                    Append(rest, [e |-> "CloseElement", id |-> node.id, t |-> <<>>])
                        \o tree_child_edges_rev(t, node.id),
                    Append(out, node))
            ELSE node_tree_iter_next(t, rest, Append(out, node))

\* NodeTreeIter::new(tree, id), collected
node_tree_iter(t, id) == node_tree_iter_next(t, tree_child_edges_rev(t, id), <<>>)

\* TaffyTreeIter::new and next on the same tree: every child yields edges
tree_children_rev(t, id) ==
    LET cs == Reverse(t.children[id])
    IN [k \in 1..Len(cs) |-> [e |-> "Open", id |-> cs[k], t |-> <<>>]]

RECURSIVE taffy_tree_iter_next(_, _, _)
taffy_tree_iter_next(t, stack, out) ==
    IF stack = <<>> THEN out
    ELSE LET node == Last(stack)
             rest == Front(stack)
         IN IF node.e = "Open"
            THEN taffy_tree_iter_next(t,
                    Append(rest, [e |-> "Close", id |-> node.id, t |-> <<>>])
                        \o tree_children_rev(t, node.id),
                    Append(out, node))
            ELSE taffy_tree_iter_next(t, rest, Append(out, node))

taffy_tree_iter(t, id) == taffy_tree_iter_next(t, tree_children_rev(t, id), <<>>)

\* the handles html5ever holds: the document and what it created
Handles(t) ==
    { i \in 1..Len(t.nodes) : i # t.error /\ t.nodes[i].kind # "Text" }

\* the handles that take children: the document and the elements
Containers(t) ==
    { i \in Handles(t) : i = t.root \/ t.nodes[i].kind = "Element" }

\* node a is node n or one of its ancestors
RECURSIVE IsAncestorOrSelfNode(_, _, _)
IsAncestorOrSelfNode(t, a, n) ==
    \/ n = a
    \/ (t.parent[n] # 0 /\ IsAncestorOrSelfNode(t, a, t.parent[n]))

\* the strings held by the Text nodes of the tree
RECURSIVE TokensFrom(_, _)
TokensFrom(t, i) ==
    IF i > Len(t.nodes) THEN 0 ELSE Len(t.nodes[i].t) + TokensFrom(t, i + 1)

\* what the tokenizer handed over: strings of text and parse errors
TokensSeen(t) == TokensFrom(t, 1) + Len(t.parse_errors)

\* a text insertion of tok stays within the bounds
TextFits(t, tok) ==
    \/ trim_is_empty(tok)
    \/ (TokensSeen(t) < MaxTokens /\ Len(t.nodes) < MaxTreeNodes)

TreeFrame ==
    UNCHANGED <<tracker, origin, workers, printer, shaper, senders, book, params, cache, rendered,
                current_loc, queue, pc, shared, bell, log>>

InitTree ==
    /\ book = <<>>
    /\ params = InitParams
    /\ cache = EmptyCache
    /\ rendered = NoRendered
    /\ log = NoLog
    /\ WorkerIdle

CreateElement(is_body) ==
    /\ Len(tree.nodes) < MaxTreeNodes
    /\ tree' = create_element(tree, is_body)
    /\ TreeFrame

CreateComment ==
    /\ Len(tree.nodes) < MaxTreeNodes
    /\ tree' = create_comment(tree)
    /\ TreeFrame

\* append(parent, AppendNode(child)): the child is a node without parent
AppendNode(parent, child) ==
    /\ parent \in Containers(tree)
    /\ child \in Handles(tree) \ {tree.root}
    /\ tree.parent[child] = 0
    /\ ~IsAncestorOrSelfNode(tree, child, parent)
    /\ tree' = append_node(tree, parent, child)
    /\ TreeFrame

AppendText(parent, tok) ==
    /\ parent \in Containers(tree)
    /\ TextFits(tree, tok)
    /\ tree' = append_text(tree, parent, tok)
    /\ TreeFrame

AppendNodeBeforeSibling(sibling, node) ==
    /\ sibling \in Handles(tree) \ {tree.root}
    /\ node \in Handles(tree) \ {tree.root, sibling}
    /\ ~IsAncestorOrSelfNode(tree, node, sibling)
    /\ tree' = append_before_sibling_safe(tree, sibling, AppendNodeOf(node)).tree
    /\ TreeFrame

AppendTextBeforeSibling(sibling, tok) ==
    /\ sibling \in Handles(tree) \ {tree.root}
    /\ TextFits(tree, tok)
    /\ tree' = append_before_sibling_safe(tree, sibling, AppendTextOf(tok)).tree
    /\ TreeFrame

ReparentChildren(node, new_parent) ==
    /\ node \in Containers(tree)
    /\ new_parent \in Containers(tree) \ {node}
    /\ ~IsAncestorOrSelfNode(tree, node, new_parent)
    /\ tree' = reparent_children(tree, node, new_parent)
    /\ TreeFrame

RemoveFromParent(target) ==
    /\ target \in Handles(tree) \ {tree.root}
    /\ tree' = remove_from_parent(tree, target)
    /\ TreeFrame

ParseError ==
    /\ TokensSeen(tree) < MaxTokens
    /\ tree' = parse_error(tree, "msg")
    /\ TreeFrame

\* the fragment is finished and the next one starts with the builder made
\* of its tree
IntoBuilder ==
    /\ tree' = into_builder(tree)
    /\ TreeFrame

NextTree ==
    \/ \E is_body \in BOOLEAN : CreateElement(is_body)
    \/ CreateComment
    \/ \E parent, child \in 1..MaxTreeNodes : AppendNode(parent, child)
    \/ \E parent \in 1..MaxTreeNodes, tok \in TextInputs : AppendText(parent, tok)
    \/ \E sibling, node \in 1..MaxTreeNodes : AppendNodeBeforeSibling(sibling, node)
    \/ \E sibling \in 1..MaxTreeNodes, tok \in TextInputs :
          AppendTextBeforeSibling(sibling, tok)
    \/ \E node, new_parent \in 1..MaxTreeNodes : ReparentChildren(node, new_parent)
    \/ \E target \in 1..MaxTreeNodes : RemoveFromParent(target)
    \/ ParseError
    \/ IntoBuilder

SpecTree == InitTree /\ [][NextTree]_vars

\* C20: no parent has two consecutive Text children, whatever operations
\* were applied: text inserted next to a Text node is merged into it.
C20_NoConsecutiveTexts ==
    \A p \in 1..Len(tree.nodes) :
        \A i \in 1..(Len(tree.children[p]) - 1) :
            ~(/\ tree.nodes[tree.children[p][i]].kind = "Text"
              /\ tree.nodes[tree.children[p][i + 1]].kind = "Text")

\* C21: inserting text of whitespace only, through append or through
\* append_before_sibling, creates no node and changes no node: the tree after
\* the call is the tree before it.
C21_WhitespaceIsNoOp ==
    /\ \A parent \in Containers(tree) : append_text(tree, parent, " ") = tree
    /\ \A sibling \in Handles(tree) \ {tree.root} :
          append_text_before_sibling(tree, sibling, " ") = tree

\* C21 witness: a tree where text of more than whitespace would be merged,
\* after a last child that is a Text and before a sibling that follows a Text
C21_Witness ==
    \E p \in Containers(tree), s \in Handles(tree) \ {tree.root} :
        /\ tree.children[p] # <<>>
        /\ tree.nodes[Last(tree.children[p])].kind = "Text"
        /\ tree.parent[s] # 0
        /\ sibling_index(tree, s) > 0
        /\ tree.nodes[tree.children[tree.parent[s]][sibling_index(tree, s)]].kind
              = "Text"

\* how often node n occurs in the child list cs
Occurrences(cs, n) == Cardinality({ i \in 1..Len(cs) : cs[i] = n })

\* x comes before y in the child list cs
Before(cs, x, y) == \E i, j \in 1..Len(cs) : i < j /\ cs[i] = x /\ cs[j] = y

\* parent links and child lists agree: a node is once in the child list of
\* its parent and in no other child list
TreeLinked(t) ==
    \A n, p \in 1..Len(t.nodes) :
        Occurrences(t.children[p], n) = IF t.parent[n] = p THEN 1 ELSE 0

\* from tree t to tree u the children of every parent keep their order, the
\* inserted node m apart
OrderKept(t, u, m) ==
    \A p \in DOMAIN t.children \cap DOMAIN u.children :
        \A x, y \in 1..Len(t.nodes) :
            (/\ x # m /\ y # m
             /\ Before(t.children[p], x, y)
             /\ Occurrences(u.children[p], x) > 0
             /\ Occurrences(u.children[p], y) > 0)
                => Before(u.children[p], x, y)

\* remove_from_parent of target changes the parent link of target and the
\* child list of its parent, and nothing else
RemoveFrame(t, target) ==
    remove_from_parent(t, target) =
        IF t.parent[target] = 0 THEN t
        ELSE [t EXCEPT !.parent[target] = 0,
                       !.children[t.parent[target]] =
                           SelectSeq(@, LAMBDA x : x # target)]

\* C22: after any sequence of operations every node but the document has at
\* most one parent, is once in the child list of that parent and in no
\* other child list; child lists keep insertion order (an appended node is
\* the last child, reparented children follow the children of the new
\* parent in their order, and no operation reorders the other children);
\* remove_from_parent changes only the parent link of the removed node and
\* the child list of its former parent.
C22_TreeIntegrity ==
    /\ [](/\ TreeLinked(tree)
          /\ \A parent \in Containers(tree), child \in Handles(tree) \ {tree.root} :
                (tree.parent[child] = 0 /\ ~IsAncestorOrSelfNode(tree, child, parent))
                    => append_node(tree, parent, child).children[parent]
                         = Append(tree.children[parent], child)
          /\ \A node, new_parent \in Containers(tree) :
                (new_parent # node /\ ~IsAncestorOrSelfNode(tree, node, new_parent))
                    => reparent_children(tree, node, new_parent).children[new_parent]
                         = tree.children[new_parent] \o tree.children[node]
          /\ \A target \in Handles(tree) \ {tree.root} : RemoveFrame(tree, target))
    /\ [][\E m \in 0..Len(tree.nodes) : OrderKept(tree, tree', m)]_vars

\* C22 witness: an element with two children that has no parent, beside the
\* document: a subtree that was built apart or taken out of the tree
C22_Witness ==
    \E n \in Containers(tree) \ {tree.root} :
        /\ tree.parent[n] = 0
        /\ Len(tree.children[n]) >= 2
        /\ \E c \in Handles(tree) : tree.parent[c] = n

\* C23: append_before_sibling with a sibling that has no parent reports
\* SiblingHasNoParent and leaves the tree as it was, for a node and for text.
C23_SiblingHasNoParent ==
    \A sibling \in Handles(tree) :
        tree.parent[sibling] = 0 =>
            \A new_node \in { AppendNodeOf(n) : n \in Handles(tree) \ {tree.root, sibling} }
                             \cup { AppendTextOf(tok) : tok \in TextInputs } :
                /\ append_before_sibling_safe(tree, sibling, new_node).result
                     = "SiblingHasNoParent"
                /\ append_before_sibling_safe(tree, sibling, new_node).tree = tree

\* C23 witness: a created element without parent, beside a document that
\* holds a Text and an element that could be moved
C23_Witness ==
    \E sibling, n \in Handles(tree) \ {tree.root} :
        /\ tree.parent[sibling] = 0
        /\ tree.parent[n] = tree.root
        /\ \E c \in 1..Len(tree.nodes) :
              tree.parent[c] = tree.root /\ tree.nodes[c].kind = "Text"

\* C36: after append_before_sibling(sibling, node) succeeds, node is the
\* child immediately before sibling in the child list of sibling's parent and
\* is in no other child list, also when node was an earlier child of that
\* same parent.
C36_NodeLandsBeforeSibling ==
    \A sibling \in Handles(tree) \ {tree.root} :
        \A node \in Handles(tree) \ {tree.root, sibling} :
            (/\ tree.parent[sibling] # 0
             /\ ~IsAncestorOrSelfNode(tree, node, sibling)) =>
                LET r == append_before_sibling_safe(tree, sibling,
                                                    AppendNodeOf(node))
                    parent == tree.parent[sibling]
                    cs == r.tree.children[parent]
                IN r.result = "Ok" =>
                      /\ r.tree.parent[node] = parent
                      /\ \E i \in 1..(Len(cs) - 1) :
                            cs[i] = node /\ cs[i + 1] = sibling
                      /\ Occurrences(cs, node) = 1
                      /\ \A p \in DOMAIN r.tree.children :
                            p # parent => Occurrences(r.tree.children[p], node) = 0

\* C37: append_before_sibling with text that is not whitespace, when the
\* sibling is the first child of its parent, completes without underflow or
\* panic in the computation of the preceding index and inserts a new Text
\* node at index 0.
C37_FirstChildNoUnderflow ==
    \A sibling \in Handles(tree) \ {tree.root} :
        \A tok \in { x \in TextInputs : ~trim_is_empty(x) } :
            (/\ tree.parent[sibling] # 0
             /\ sibling_index(tree, sibling) = 0) =>
                \A o \in append_text_before_sibling_builds(tree, sibling, tok) :
                    LET cs == o.tree.children[tree.parent[sibling]]
                        new == Len(tree.nodes) + 1
                    IN /\ o.result = "Ok"
                       /\ ~o.wrapped
                       /\ Len(o.tree.nodes) = new
                       /\ o.tree.nodes[new].kind = "Text"
                       /\ cs = <<new>> \o tree.children[tree.parent[sibling]]

\* the nodes below node s
Under(t, s) ==
    { n \in 1..Len(t.nodes) : n # s /\ IsAncestorOrSelfNode(t, s, n) }

\* the edges E are the document order of the nodes below s: every node of
\* Pairs has one opening edge and later one closing edge, every node of
\* Singles has one Text edge with the node's content, no other node has an
\* edge, the edges of a node lie between the edges of its parent, and the
\* edges of a child lie before those of every later child of the same parent
InDocumentOrder(t, s, E, Pairs, Singles) ==
    LET At(n) == { k \in 1..Len(E) : E[k].id = n }
        First(n) == CHOOSE k \in At(n) : \A j \in At(n) : k <= j
        Final(n) == CHOOSE k \in At(n) : \A j \in At(n) : j <= k
        Seen == Pairs \cup Singles
    IN /\ \A k \in 1..Len(E) : E[k].id \in Seen
       /\ \A n \in Pairs :
             /\ Cardinality(At(n)) = 2
             /\ E[First(n)].e \in {"OpenElement", "Open"}
             /\ E[Final(n)].e \in {"CloseElement", "Close"}
       /\ \A n \in Singles :
             /\ Cardinality(At(n)) = 1
             /\ E[First(n)].e = "Text"
             /\ E[First(n)].t = t.nodes[n].t
       /\ \A n \in Seen :
             t.parent[n] # s =>
                /\ t.parent[n] \in Pairs
                /\ First(t.parent[n]) < First(n)
                /\ Final(n) < Final(t.parent[n])
       /\ \A n, m \in Seen :
             (/\ t.parent[n] = t.parent[m]
              /\ Before(t.children[t.parent[n]], n, m))
                => Final(n) < First(m)

\* C38: NodeTreeIter and TaffyTreeIter started at a node visit the nodes
\* below it in document order: an element yields one Open edge and later its
\* Close edge, the edges of its descendants lie between them, nested,
\* children come in child-list order, and a Text node yields one Text edge
\* with its full content.
C38_IterDocumentOrder ==
    \A s \in 1..Len(tree.nodes) :
        /\ InDocumentOrder(tree, s, node_tree_iter(tree, s),
               { n \in Under(tree, s) : tree.nodes[n].kind = "Element" },
               { n \in Under(tree, s) : tree.nodes[n].kind = "Text" })
        /\ InDocumentOrder(tree, s, taffy_tree_iter(tree, s),
               Under(tree, s), {})

\* C38 witness: an element under the document with a Text child and, after
\* it, an element child
C38_Witness ==
    \E a, x, b \in 1..Len(tree.nodes) :
        /\ tree.parent[a] = tree.root
        /\ tree.nodes[a].kind = "Element"
        /\ tree.nodes[x].kind = "Text"
        /\ tree.nodes[b].kind = "Element"
        /\ tree.children[a] = <<x, b>>
        /\ Len(node_tree_iter(tree, tree.root)) = 5

\* C24: the builder that NodeTree::into_builder makes of any tree is the
\* builder that NodeTreeBuilder::new makes: a root and an error node, no
\* other node, no body marker and no parse error, so the next fragment is
\* parsed from the state a new builder starts in.
C24_ReusedBuilderIsFresh == into_builder(tree) = NewBuilder

\* C24 witness: a tree with a body, a Text and a parse error to clear
C24_Witness ==
    /\ tree.body # 0
    /\ tree.parse_errors # <<>>
    /\ \E c \in 1..Len(tree.nodes) :
          tree.nodes[c].kind = "Text" /\ tree.parent[c] = tree.body

----------------------------------------------------------------------------
(* The glyph atlas: SculpturePrinter of src/sculpter/src/printer.rs. One    *)
(* font is loaded; a glyph's pixel bounds are a square of its font size     *)
(* (scale factor 1). Glyph 3 has no outline.                                *)

GlyphIds == {1, 2, 3}
NoOutline == {3}
FontSizes == {600, 2500}
MaxTextures ==
    { [width |-> 512, height |-> 512], [width |-> 4096, height |-> 4096],
      LibMaxTexture }

\* GlyphIdent::new
GlyphIdent(font_size, glyph) ==
    [face_ref |-> glyph.face_ref, glyph_id |-> glyph.glyph_id, size |-> font_size]

AllIdents ==
    { [face_ref |-> 0, glyph_id |-> g, size |-> fs] : g \in GlyphIds, fs \in FontSizes }

\* the lines of glyphs a print_lines call is given, as one sequence
GlyphLines ==
    UNION { [1..n -> { [face_ref |-> 0, glyph_id |-> g] : g \in GlyphIds }]
              : n \in 1..MaxGlyphs }

\* OutlinedGlyph::px_bounds as a size
px_bounds(ident) == [width |-> ident.size, height |-> ident.size]

\* BucketedAtlasAllocator::allocate: None, or the allocator after the
\* allocation and the rectangle's min.x
allocate(a, size) ==
    IF a.used + size.width <= a.size.width /\ size.height <= a.size.height
    THEN <<[allocator |-> [a EXCEPT !.used = @ + size.width], x |-> a.used]>>
    ELSE None

\* BucketedAtlasAllocator::grow
grow(a, new_size) == [a EXCEPT !.size = new_size]

\* history of the printer: outlines made per key, allocations made, redraws of the image, whether a glyph was packed since
\* the last update_glyph_atlas, the calls made and the last Result
NoPrinterLog ==
    [rasterized |-> [k \in AllIdents |-> 0], allocs |-> 0,
     redraws |-> 0, packed |-> FALSE, prints |-> 0, updates |-> 0,
     result |-> "none"]

\* SculpturePrinter::alloc_glyph; st is the printer p with the history lg
alloc_glyph(st, ident) ==
    IF ident.glyph_id \in NoOutline
    THEN [st EXCEPT !.result = "OutlineMissing"]
    ELSE
    LET lg1 == [st.lg EXCEPT !.rasterized[ident] = @ + 1]
        size == px_bounds(ident)
        first == allocate(st.p.allocator, size)
        incr == [width |-> INITIAL_SIZE, height |-> INITIAL_SIZE]
        grown == grow(st.p.allocator,
                      size_min(size_add(st.p.allocator.size, incr),
                               st.p.max_texture_2d))
        second == allocate(grown, size)
        alloc == IF first # None THEN first ELSE second
    IN IF alloc = None
       THEN [p |-> [st.p EXCEPT !.allocator = grown], lg |-> lg1,
             result |-> "GrowAtlasFailed"]
       ELSE [p |-> [st.p EXCEPT !.allocator = alloc[1].allocator,
                                !.need_texture_refresh = TRUE,
                                !.glyph_map = @ \cup {[ident |-> ident, x |-> alloc[1].x]}],
             lg |-> [lg1 EXCEPT !.allocs = @ + 1, !.packed = TRUE],
             result |-> "Ok"]

\* the loop of SculpturePrinter::print_lines over the glyphs; an error ends it
RECURSIVE print_glyphs(_, _, _)
print_glyphs(st, font_size, glyphs) ==
    IF glyphs = <<>> \/ st.result # "Ok" THEN st
    ELSE LET ident == GlyphIdent(font_size, Head(glyphs))
             st1 == IF \E e \in st.p.glyph_map : e.ident = ident
                    THEN st
                    ELSE alloc_glyph(st, ident)
         IN print_glyphs(st1, font_size, Tail(glyphs))

\* SculpturePrinter::print_lines
print_lines(p, lg, font_size, glyphs) ==
    print_glyphs([p |-> p, lg |-> lg, result |-> "Ok"], font_size, glyphs)

\* SculpturePrinter::update_glyph_atlas: TRUE if the image is drawn again
update_glyph_atlas(p) == p.need_texture_refresh

InitPrinter ==
    /\ book = <<>>
    /\ params = InitParams
    /\ cache = EmptyCache
    /\ rendered = NoRendered
    /\ current_loc = Location(0, 0)
    /\ queue = <<>>
    /\ pc = "idle"
    /\ shared = [location |-> Location(0, 0), persisted |-> Location(0, 0)]
    /\ bell = NoBell
    /\ senders = AllSenders
    /\ tree = NewBuilder
    /\ workers = NoWorkers
    /\ origin = NoOrigin
    /\ tracker = NewTracker
    /\ shaper = NewShaper
    /\ log = NoPrinterLog
    /\ \E max_texture_2d \in MaxTextures : printer = NewPrinter(max_texture_2d)

PrinterFrame ==
    UNCHANGED <<tracker, origin, workers, shaper, tree, senders, book, params, cache, rendered, current_loc,
                queue, pc, shared, bell>>

PrintLines(font_size, glyphs) ==
    /\ log.prints < MaxPrints
    /\ LET st == print_lines(printer, log, font_size, glyphs)
       IN /\ printer' = st.p
          /\ log' = [st.lg EXCEPT !.prints = @ + 1, !.result = st.result]
    /\ PrinterFrame

UpdateGlyphAtlas ==
    /\ log.updates < MaxUpdates
    /\ log' = [log EXCEPT !.updates = @ + 1,
                          !.redraws = IF update_glyph_atlas(printer) THEN @ + 1 ELSE @,
                          !.packed = FALSE,
                          !.result = "Ok"]
    /\ UNCHANGED printer
    /\ PrinterFrame

NextPrinter ==
    \/ \E font_size \in FontSizes, glyphs \in GlyphLines : PrintLines(font_size, glyphs)
    \/ UpdateGlyphAtlas

SpecPrinter == InitPrinter /\ [][NextPrinter]_vars

\* C25: each key (face, glyph id, font size) that print_lines has printed
\* was rasterized exactly once, and the atlas allocations made are as many
\* as the distinct keys printed.
C25_GlyphAllocatedOnce ==
    /\ \A e \in printer.glyph_map : log.rasterized[e.ident] = 1
    /\ log.allocs = Cardinality({ e.ident : e \in printer.glyph_map })

\* C26: the image is drawn again only if a glyph was packed since the
\* last update_glyph_atlas.
C26_RedrawOnlyAfterPacking ==
    [][log'.redraws > log.redraws => log.packed]_vars

\* C27: the atlas never exceeds the maximum texture size, never shrinks,
\* and GrowAtlasFailed is returned only with the atlas at the maximum
\* texture size.
C27_GrowUpToMaximum ==
    /\ [](/\ printer.allocator.size.width <= printer.max_texture_2d.width
          /\ printer.allocator.size.height <= printer.max_texture_2d.height
          /\ (log.result = "GrowAtlasFailed"
                => printer.allocator.size = printer.max_texture_2d))
    /\ [][/\ printer'.allocator.size.width >= printer.allocator.size.width
          /\ printer'.allocator.size.height >= printer.allocator.size.height]_vars

----------------------------------------------------------------------------
(* Shaping with fallback: SculptureShaper of src/sculpter/src/shaper.rs.    *)
(* A face is the set of characters it has a glyph for; rustybuzz shapes one *)
(* character to one glyph and keeps its cluster. Face 0 is the text face,   *)
(* faces 1 and 2 are the fallback faces, in this order.                     *)

Chars == {"a", "zh", "e", "s", "t"}

\* the Unicode script of a character
Script(c) == IF c = "a" THEN "Latin" ELSE IF c = "zh" THEN "Cyrillic" ELSE "Common"

\* the glyph id a face has for a character, 0 if it has none
glyph_index(face, c) ==
    IF c \notin face THEN 0
    ELSE IF c = "a" THEN 1 ELSE IF c = "zh" THEN 2 ELSE IF c = "e" THEN 3
    ELSE IF c = "s" THEN 4 ELSE 5

\* SculptureShaper::add
add(sh, face, fallback) ==
    [plans |-> Append(sh.plans, [face |-> face, plan |-> None]),
     fallback |-> IF fallback THEN Append(sh.fallback, Len(sh.plans)) ELSE sh.fallback]

\* the shaper with the text face and the two fallback faces added
LoadedShaper ==
    add(add(add(NewShaper, {"a", "zh"}, FALSE), {"e"}, TRUE), {"e", "s"}, TRUE)

\* the strings of one shape call
RECURSIVE StringsOf(_, _)
StringsOf(strings, chars) ==
    IF strings = 0 THEN { <<>> }
    ELSE { <<>> } \cup
         UNION { { <<s>> \o rest : rest \in StringsOf(strings - 1, chars - n) }
                   : <<n, s>> \in { <<k, t>> \in (1..chars) \X
                                       UNION { [1..m -> Chars] : m \in 1..chars }
                                     : Len(t) = k } }

ShapeInputs == StringsOf(MaxStrings, MaxChars) \ { <<>> }

\* the glyphs the caller's vector holds before the call
Prefixes == { <<>>, <<[face_ref |-> 0, glyph_id |-> 1, pos |-> "a"]>> }

\* UnicodeBuffer::push_str for each input, with the buffer length before it
RECURSIVE push_inputs(_, _)
push_inputs(strs, start) ==
    IF strs = <<>> THEN <<>>
    ELSE <<[offset |-> start, s |-> Head(strs)]>>
           \o push_inputs(Tail(strs), start + Len(Head(strs)))

\* the buffer after the push_str calls: character and cluster
RECURSIVE buffer_of(_)
buffer_of(inputs) ==
    IF inputs = <<>> THEN <<>>
    ELSE [i \in 1..Len(Head(inputs).s) |-> [c |-> Head(inputs).s[i], cluster |-> i - 1]]
           \o buffer_of(Tail(inputs))

\* set_direction(LeftToRight) and guess_segment_properties: the script of
\* the first character that has one
segment_properties(buffer) ==
    LET scripted == SelectSeq(buffer, LAMBDA b : Script(b.c) # "Common")
    IN [direction |-> "LeftToRight",
        script |-> IF scripted = <<>> THEN "Unknown" ELSE Script(scripted[1].c),
        language |-> "default"]

\* the properties of a buffer that was cleared and filled with add
unset_properties == [direction |-> "Invalid", script |-> "Unknown", language |-> "none"]

\* get_or_create_shape_plan: the plans afterwards and the plan handed out
get_or_create_shape_plan(plans, props, face_ref) ==
    IF plans[face_ref + 1].plan # None
    THEN [plans |-> plans, plan |-> plans[face_ref + 1].plan[1]]
    ELSE [plans |-> [plans EXCEPT ![face_ref + 1].plan = <<props>>], plan |-> props]

\* rustybuzz::shape_with_plan
shape_with_plan(face, buffer) ==
    [i \in 1..Len(buffer) |->
        [glyph_id |-> glyph_index(face, buffer[i].c), cluster |-> buffer[i].cluster,
         c |-> buffer[i].c]]

\* Iterator::nth on the characters of s
nth(s, k) == IF k < Len(s) THEN <<s[k + 1]>> ELSE None

\* the find_map over the inputs for the character at idx
RECURSIVE find_char(_, _)
find_char(inputs, idx) ==
    IF inputs = <<>> THEN None
    ELSE LET found == IF Head(inputs).offset < idx
                      THEN nth(Head(inputs).s, idx - Head(inputs).offset)
                      ELSE None
         IN IF found # None THEN found ELSE find_char(Tail(inputs), idx)

\* the buffer of the characters found for the invalid positions
RECURSIVE fallback_buffer(_, _)
fallback_buffer(inputs, invalid) ==
    IF invalid = <<>> THEN <<>>
    ELSE LET c == find_char(inputs, Head(invalid))
         IN (IF c # None THEN <<[c |-> c[1], cluster |-> Head(invalid)]>> ELSE <<>>)
              \o fallback_buffer(inputs, Tail(invalid))

\* the loop over the glyphs a fallback face shaped: valid glyphs are written
\* into the slice that begins at start, the others stay invalid
RECURSIVE merge_shaped(_, _, _, _)
merge_shaped(st, face_ref, start, shaped) ==
    IF shaped = <<>> THEN st
    ELSE LET info == Head(shaped)
             st1 == IF info.glyph_id > 0
                    THEN [st EXCEPT !.glyphs[start + info.cluster + 1] =
                              [face_ref |-> face_ref, glyph_id |-> info.glyph_id,
                               pos |-> info.c]]
                    ELSE [st EXCEPT !.invalid = Append(@, info.cluster)]
         IN merge_shaped(st1, face_ref, start, Tail(shaped))

\* SculptureShaper::shape_fallback: the loop over the fallback faces
RECURSIVE shape_fallback(_, _, _, _)
shape_fallback(st, fallback, inputs, start) ==
    IF fallback = <<>> \/ st.invalid = <<>> THEN st
    ELSE LET face_ref == Head(fallback)
             buffer == fallback_buffer(inputs, st.invalid)
             got == get_or_create_shape_plan(st.plans, unset_properties, face_ref)
             shaped == shape_with_plan(got.plans[face_ref + 1].face, buffer)
             st1 == [st EXCEPT !.plans = got.plans, !.invalid = <<>>,
                               !.calls = Append(@, [face_ref |-> face_ref,
                                                    props |-> unset_properties,
                                                    plan |-> got.plan])]
         IN shape_fallback(merge_shaped(st1, face_ref, start, shaped),
                           Tail(fallback), inputs, start)

\* the glyphs of the first part of SculptureShaper::shape, before fallback
primary_glyphs(sh, face_ref, strs) ==
    LET shaped == shape_with_plan(sh.plans[face_ref + 1].face,
                                  buffer_of(push_inputs(strs, 0)))
    IN [i \in 1..Len(shaped) |->
           [face_ref |-> face_ref, glyph_id |-> shaped[i].glyph_id, pos |-> shaped[i].c]]

shape_whole_vector(sh, face_ref, strs, glyphs) ==
    LET inputs == push_inputs(strs, 0)
        props == segment_properties(buffer_of(inputs))
        got == get_or_create_shape_plan(sh.plans, props, face_ref)
        prim == primary_glyphs(sh, face_ref, strs)
    IN shape_fallback([plans |-> got.plans,
                       invalid |-> SelectSeq([i \in 1..Len(prim) |-> i - 1],
                                             LAMBDA i : prim[i + 1].glyph_id = 0),
                       glyphs |-> glyphs \o prim,
                       calls |-> <<[face_ref |-> face_ref, props |-> props,
                                    plan |-> got.plan]>>],
                      sh.fallback, inputs, 0)

\* SculptureShaper::shape: the shaper's plans afterwards, the caller's
\* vector of glyphs and, as history, the shape_with_plan calls made
shape(sh, face_ref, strs, glyphs) ==
    LET inputs == push_inputs(strs, 0)
        props == segment_properties(buffer_of(inputs))
        got == get_or_create_shape_plan(sh.plans, props, face_ref)
        prim == primary_glyphs(sh, face_ref, strs)
    IN shape_fallback([plans |-> got.plans,
                       invalid |-> SelectSeq([i \in 1..Len(prim) |-> i - 1],
                                             LAMBDA i : prim[i + 1].glyph_id = 0),
                       glyphs |-> glyphs \o prim,
                       calls |-> <<[face_ref |-> face_ref, props |-> props,
                                    plan |-> got.plan]>>],
                      sh.fallback, inputs, Len(glyphs))

\* history of the shaper: the last call's strings, the vector before and
\* after it, and the shape_with_plan calls it made
NoShaperLog == [strs |-> <<>>, before |-> <<>>, glyphs |-> <<>>, calls |-> <<>>]

InitShaper ==
    /\ book = <<>>
    /\ params = InitParams
    /\ cache = EmptyCache
    /\ rendered = NoRendered
    /\ current_loc = Location(0, 0)
    /\ queue = <<>>
    /\ pc = "idle"
    /\ shared = [location |-> Location(0, 0), persisted |-> Location(0, 0)]
    /\ bell = NoBell
    /\ senders = AllSenders
    /\ tree = NewBuilder
    /\ workers = NoWorkers
    /\ origin = NoOrigin
    /\ tracker = NewTracker
    /\ printer = NewPrinter(LibMaxTexture)
    /\ shaper = LoadedShaper
    /\ log = NoShaperLog

Shape(strs, glyphs) ==
    /\ log = NoShaperLog
    /\ LET st == shape(shaper, 0, strs, glyphs)
       IN /\ shaper' = [shaper EXCEPT !.plans = st.plans]
          /\ log' = [strs |-> strs, before |-> glyphs, glyphs |-> st.glyphs,
                     calls |-> st.calls]
    /\ UNCHANGED <<tracker, origin, workers, printer, tree, senders, book, params, cache, rendered,
                   current_loc, queue, pc, shared, bell>>

\* the caller lays out the glyphs of the call; nothing of it is remembered
TakeGlyphs ==
    /\ log # NoShaperLog
    /\ log' = NoShaperLog
    /\ UNCHANGED <<tracker, origin, workers, shaper, printer, tree, senders, book, params, cache, rendered,
                   current_loc, queue, pc, shared, bell>>

NextShaper ==
    \/ \E strs \in ShapeInputs, glyphs \in Prefixes : Shape(strs, glyphs)
    \/ TakeGlyphs

SpecShaper == InitShaper /\ [][NextShaper]_vars

\* the characters of the last call, in the order of their positions
RECURSIVE Flat(_)
Flat(strs) == IF strs = <<>> THEN <<>> ELSE Head(strs) \o Flat(Tail(strs))

\* the glyph the fallback faces, asked in their order, give for c
RECURSIVE FirstFallback(_, _)
FirstFallback(fallback, c) ==
    IF fallback = <<>> THEN [face_ref |-> 0, glyph_id |-> 0, pos |-> c]
    ELSE IF glyph_index(shaper.plans[Head(fallback) + 1].face, c) > 0
    THEN [face_ref |-> Head(fallback),
          glyph_id |-> glyph_index(shaper.plans[Head(fallback) + 1].face, c),
          pos |-> c]
    ELSE FirstFallback(Tail(fallback), c)

\* C28: every position the text face shapes to glyph 0 holds, after the
\* call, the glyph of the first fallback face that has one for its
\* character, wherever the position lies; it keeps glyph 0 only if no
\* fallback face has one.
C28_FallbackEveryPosition ==
    \A i \in 1..Len(Flat(log.strs)) :
        glyph_index(shaper.plans[1].face, Flat(log.strs)[i]) = 0
            => log.glyphs[Len(log.before) + i]
                 = FirstFallback(shaper.fallback, Flat(log.strs)[i])

\* C29: fallback shaping merges in place: the vector holds as many glyphs
\* as before the call plus one per character, the glyphs from before the
\* call and every glyph the text face shaped to a valid id are unchanged.
C29_FallbackMergesInPlace ==
    LET prim == primary_glyphs(shaper, 0, log.strs)
    IN /\ Len(log.glyphs) = Len(log.before) + Len(prim)
       /\ SubSeq(log.glyphs, 1, Len(log.before)) = log.before
       /\ \A i \in 1..Len(prim) :
             prim[i].glyph_id # 0 => log.glyphs[Len(log.before) + i] = prim[i]

\* C29 witness: after glyphs from an earlier call and a valid glyph of the
\* text face, a position was filled by the second fallback face
C29_Witness ==
    /\ log.before # <<>>
    /\ Len(log.glyphs) = Len(log.before) + 2
    /\ log.glyphs[Len(log.before) + 1].face_ref = 0
    /\ log.glyphs[Len(log.before) + 1].glyph_id > 0
    /\ log.glyphs[Len(log.before) + 2].face_ref = 2
    /\ log.glyphs[Len(log.before) + 2].glyph_id > 0

\* C30: the shape plan used by every shaping call is one for the call's
\* direction, script and language.
C30_PlanMatchesCall ==
    \A k \in 1..Len(log.calls) : log.calls[k].plan = log.calls[k].props

----------------------------------------------------------------------------
(* The gesture tracker (src/main/src/gestures.rs) *)

\* Location of a touch, in pixels
TouchLocation(x, y) == [x |-> x, y |-> y]

abs_diff(a, b) == IF a < b THEN b - a ELSE a - b

integer_sqrt(n) == CHOOSE r \in 0..n : r * r <= n /\ (r + 1) * (r + 1) > n

\* Location::dist
dist(a, b) ==
    integer_sqrt(abs_diff(a.x, b.x) * abs_diff(a.x, b.x)
                 + abs_diff(a.y, b.y) * abs_diff(a.y, b.y))

\* round(atan2(ay, ax) / (PI / 8)) for ax, ay >= 0: the angle's sixteenth of
\* the circle, found by comparing ay / ax with the tangents of 11.25, 33.75,
\* 56.25 and 78.75 degrees (six decimals; exact for coordinates below 400)
sixteenth(ax, ay) ==
    IF ay = 0 THEN 0
    ELSE IF 1000000 * ay < 198912 * ax THEN 0
    ELSE IF 1000000 * ay < 668179 * ax THEN 1
    ELSE IF 1000000 * ay < 1496606 * ax THEN 2
    ELSE IF 1000000 * ay < 5027339 * ax THEN 3
    ELSE 4

\* Direction::into_move: bucket = round((PI + atan2(y_d, x_d)) * (8 / PI))
bucket(a, b) ==
    LET q == sixteenth(abs_diff(a.x, b.x), abs_diff(a.y, b.y))
        k == IF b.x >= a.x THEN q ELSE 8 - q
    IN IF b.y < a.y THEN 8 - k ELSE 8 + k

into_move(a, b) ==
    LET bk == bucket(a, b)
    IN CASE bk = 0 -> "Left"
         [] bk \in 1..2 -> "UpLeft"
         [] bk \in 3..4 -> "Up"
         [] bk \in 5..6 -> "UpRight"
         [] bk \in 7..8 -> "Right"
         [] bk \in 9..10 -> "DownRight"
         [] bk \in 11..12 -> "Down"
         [] bk \in 13..14 -> "DownLeft"
         [] bk \in 15..16 -> "Left"

\* touch_start: the GestureState of a touch that has just started
NewGestureState(finger_id, l) ==
    [id |-> finger_id, ph |-> "Started", loc |-> l, idx |-> 0,
     moves |-> [i \in 1..MAX_MOVES |-> None]]

\* GestureState::active_id
active_id(s, finger_id) == s.ph = "Started" /\ s.id = finger_id

\* GestureState::record_direction; moves[idx] of the code is moves[idx + 1]
\* here, and a count is a u8
record_direction(s, l) ==
    IF s.idx >= MAX_MOVES - 2
    THEN s
    ELSE LET m == into_move(s.loc, l)
             cur == s.moves[s.idx + 1]
         IN IF cur # None
            THEN IF cur[1][1] = m
                 THEN [s EXCEPT !.loc = l,
                                !.moves[s.idx + 1] = <<<<m, (cur[1][2] + 1) % 256>>>>]
                 ELSE [s EXCEPT !.loc = l,
                                !.moves[s.idx + 2] = <<<<m, 1>>>>,
                                !.idx = @ + 1]
            ELSE [s EXCEPT !.loc = l, !.moves[s.idx + 1] = <<<<m, 1>>>>]

\* Gesture::from_moves: Some(gesture) or None; steps sums the u8 counts
from_moves(moves) ==
    LET filled == { i \in 1..MAX_MOVES : moves[i] # None }
        n == Cardinality(filled)
        count(i) == IF i \in filled THEN moves[i][1][2] ELSE 0
    IN IF filled # 1..n
       THEN None
       ELSE << [kind |-> CASE n = 0 -> "Tap"
                           [] n = 1 -> "Swipe"
                           [] n = 2 -> "Swipe2"
                           [] n = 3 -> "Swipe3"
                           [] n = 4 -> "Swipe4",
                dirs |-> [i \in 1..n |-> moves[i][1][1]],
                steps |-> (count(1) + count(2) + count(3) + count(4)) % 256] >>

\* GestureIter::next from index i on: the events of the ended states
RECURSIVE gesture_iter(_, _)
gesture_iter(states, i) ==
    IF i > Len(states)
    THEN <<>>
    ELSE IF /\ states[i] # None
            /\ states[i][1].ph = "Ended"
            /\ from_moves(states[i][1].moves) # None
         THEN <<[loc |-> states[i][1].loc,
                 gesture |-> from_moves(states[i][1].moves)[1]]>>
              \o gesture_iter(states, i + 1)
         ELSE gesture_iter(states, i + 1)

\* GestureTracker::events
events(t) == gesture_iter(t.states, 1)

\* GestureTracker::status
status(t) ==
    IF \A i \in 1..Fingers : t.states[i] = None \/ t.states[i][1].ph = "Ended"
    THEN "Idle"
    ELSE "Tracking"

\* states.iter_mut().find(..): the first state that is None, or 0
find_none(t) ==
    IF \E i \in 1..Fingers : t.states[i] = None
    THEN CHOOSE i \in 1..Fingers :
            t.states[i] = None /\ \A j \in 1..(i - 1) : t.states[j] # None
    ELSE 0

\* states.iter_mut().find(..): the first state active for finger_id, or 0
find_active(t, finger_id) ==
    LET act(i) == t.states[i] # None /\ active_id(t.states[i][1], finger_id)
    IN IF \E i \in 1..Fingers : act(i)
       THEN CHOOSE i \in 1..Fingers : act(i) /\ \A j \in 1..(i - 1) : ~act(j)
       ELSE 0

\* Bounds of the tracker specification
MaxSteps == 4           \* touch_move and touch_end calls between two resets
GridMax == 2            \* largest x of a touch location

FingerIds == {0, 1}
TouchLocations == { TouchLocation(x, 0) : x \in 0..GridMax }
MinDistances == {0, 1}

\* History of the touches since the last reset, per state of the tracker:
\* calls counts the touch_move and touch_end calls of the touch, steps those
\* of them that went farther than the minimum distance from the state's
\* location, and dirs holds the directions of those steps
NoGestureLog ==
    [op |-> "new", slot |-> 0, result |-> "None",
     calls |-> [i \in 1..Fingers |-> 0],
     steps |-> [i \in 1..Fingers |-> 0],
     dirs |-> [i \in 1..Fingers |-> {}]]

InitGesture ==
    /\ book = <<>>
    /\ params = InitParams
    /\ cache = EmptyCache
    /\ rendered = NoRendered
    /\ log = NoGestureLog
    /\ WorkerIdle

GestureRest ==
    UNCHANGED <<book, params, cache, rendered, current_loc, queue, pc,
                shared, bell, senders, tree, printer, shaper, workers, origin>>

\* touch_move and touch_end calls of the first n states since the last reset
RECURSIVE TotalCalls(_)
TotalCalls(n) == IF n = 0 THEN 0 ELSE log.calls[n] + TotalCalls(n - 1)

\* GestureTracker::set_min_distance, called between touches
SetMinDistance(min_distance) ==
    /\ \A i \in 1..Fingers : tracker.states[i] = None
    /\ tracker' = [tracker EXCEPT !.min_distance = min_distance]
    /\ log' = [log EXCEPT !.op = "set_min_distance", !.slot = 0,
                          !.result = "None"]
    /\ GestureRest

\* GestureTracker::touch_start
TouchStart(finger_id, l) ==
    LET i == find_none(tracker)
    IN /\ IF i # 0
          THEN /\ tracker' = [tracker EXCEPT
                                 !.states[i] = <<NewGestureState(finger_id, l)>>]
               /\ log' = [log EXCEPT !.op = "touch_start", !.slot = i,
                                     !.result = "Captured",
                                     !.calls[i] = 0, !.steps[i] = 0,
                                     !.dirs[i] = {}]
          ELSE /\ tracker' = tracker
               /\ log' = [log EXCEPT !.op = "touch_start", !.slot = 0,
                                     !.result = "Ignored"]
       /\ GestureRest

\* the history after a touch_move or touch_end of state i to location l
Stepped(op, i, l) ==
    LET s == tracker.states[i][1]
        far == dist(s.loc, l) > tracker.min_distance
    IN [log EXCEPT !.op = op, !.slot = i, !.result = "Captured",
                   !.calls[i] = @ + 1,
                   !.steps[i] = IF far THEN @ + 1 ELSE @,
                   !.dirs[i] = IF far THEN @ \cup {into_move(s.loc, l)} ELSE @]

\* GestureTracker::touch_move
TouchMove(finger_id, l) ==
    LET i == find_active(tracker, finger_id)
    IN /\ IF i # 0
          THEN LET s == tracker.states[i][1]
               IN /\ TotalCalls(Fingers) < MaxSteps - 1
                  /\ tracker' = [tracker EXCEPT !.states[i] =
                        IF dist(s.loc, l) > tracker.min_distance
                        THEN <<record_direction(s, l)>>
                        ELSE <<s>>]
                  /\ log' = Stepped("touch_move", i, l)
          ELSE /\ tracker' = tracker
               /\ log' = [log EXCEPT !.op = "touch_move", !.slot = 0,
                                     !.result = "Ignored"]
       /\ GestureRest

\* GestureTracker::touch_end
TouchEnd(finger_id, l) ==
    LET i == find_active(tracker, finger_id)
    IN /\ IF i # 0
          THEN LET s == tracker.states[i][1]
                   r == IF dist(s.loc, l) > tracker.min_distance
                        THEN record_direction(s, l)
                        ELSE s
               IN /\ TotalCalls(Fingers) < MaxSteps
                  /\ tracker' = [tracker EXCEPT !.states[i] =
                        <<[r EXCEPT !.ph = "Ended", !.loc = l]>>]
                  /\ log' = Stepped("touch_end", i, l)
          ELSE /\ tracker' = tracker
               /\ log' = [log EXCEPT !.op = "touch_end", !.slot = 0,
                                     !.result = "Ignored"]
       /\ GestureRest

\* GestureTracker::touch_cancel
TouchCancel(finger_id) ==
    LET i == find_active(tracker, finger_id)
    IN /\ IF i # 0
          THEN /\ tracker' = [tracker EXCEPT !.states[i] = None]
               /\ log' = [log EXCEPT !.op = "touch_cancel", !.slot = i,
                                     !.result = "Captured",
                                     !.calls[i] = 0, !.steps[i] = 0,
                                     !.dirs[i] = {}]
          ELSE /\ tracker' = tracker
               /\ log' = [log EXCEPT !.op = "touch_cancel", !.slot = 0,
                                     !.result = "Ignored"]
       /\ GestureRest

\* GestureTracker::reset, as the window handler calls it: after the events
\* of a frame that ended with the tracker idle were handled
Reset ==
    /\ status(tracker) = "Idle"
    /\ \E i \in 1..Fingers : tracker.states[i] # None
    /\ tracker' = [tracker EXCEPT !.states = [i \in 1..Fingers |-> None]]
    /\ log' = [NoGestureLog EXCEPT !.op = "reset"]
    /\ GestureRest

NextGesture ==
    \/ \E d \in MinDistances : SetMinDistance(d)
    \/ \E f \in FingerIds, l \in TouchLocations : TouchStart(f, l)
    \/ \E f \in FingerIds, l \in TouchLocations : TouchMove(f, l)
    \/ \E f \in FingerIds, l \in TouchLocations : TouchEnd(f, l)
    \/ \E f \in FingerIds : TouchCancel(f)
    \/ Reset

SpecGesture == InitGesture /\ [][NextGesture]_vars

\* the states of the touches that have ended
EndedSlots == { i \in 1..Fingers :
                  tracker.states[i] # None /\ tracker.states[i][1].ph = "Ended" }

\* C40: a touch_end of an active touch is captured and, when no other touch
\* is active, leaves the tracker Idle; every ended touch yields exactly one
\* event, whose step count is the number of steps of the touch that went
\* farther than the minimum distance; when the touch went k + 1 such steps
\* (k moves and the end) all in one direction the event is
\* Swipe(direction, k + 1).
C40_EndedTouchOneEvent ==
    /\ (log.op = "touch_end" /\ log.slot # 0) =>
          /\ log.result = "Captured"
          /\ tracker.states[log.slot][1].ph = "Ended"
          /\ (\A j \in 1..Fingers : j \in EndedSlots \/ tracker.states[j] = None)
                => status(tracker) = "Idle"
    /\ Len(events(tracker)) = Cardinality(EndedSlots)
    /\ \A i \in EndedSlots :
          LET g == from_moves(tracker.states[i][1].moves)
          IN /\ g # None
             /\ g[1].steps = log.steps[i]
             /\ \A d \in log.dirs[i] :
                   (log.dirs[i] = {d} /\ log.steps[i] = log.calls[i])
                      => g[1] = [kind |-> "Swipe", dirs |-> <<d>>,
                                 steps |-> log.calls[i]]

====
